---------------------------- MODULE Spec2Model ----------------------------
(***************************************************************************)
(* A model of textual-snapshots: the interaction validator                 *)
(* (interactions.py), the interaction executor of the capture engine       *)
(* (capture.py) and the proactive error detector (detection.py).           *)
(*                                                                         *)
(* Text is a sequence of one-character strings, so that splitting,         *)
(* stripping, prefix tests and substring tests are computed as the code    *)
(* computes them.  A float is the exact quotient [num, den] of its value,  *)
(* and every float operation rounds to a significand of Precision bits,    *)
(* ties to even; decimal literals are written in tenths (Tenths(9) is the  *)
(* float of 0.9).                                                          *)
(***************************************************************************)
EXTENDS Integers, Sequences, FiniteSets, TLC

VARIABLES
    raw,          \* parse_interaction: the interaction_string argument
    parsed,       \* parse_interaction: its outcome (NotCalled before the call)
    reparsed,     \* parse_interaction applied to the value it returned
    interactions, \* validate_sequence: the interactions argument
    vresult,      \* validate_sequence: the ValidationResult (NotCalled before)
    pList,        \* _perform_interactions: the interactions argument
    exec,         \* _perform_interactions: the coroutine's position (pc, idx, char),
                  \* the pilot calls in flight, the exception that ended it and
                  \* the trace of what it has done to the pilot and the clock
    capture,      \* detect_common_issues: the CaptureResult argument and the
                  \* artifact file its screenshot_path names
    enable_svg_analysis, \* ProactiveErrorDetector.enable_svg_analysis
    dresult,      \* detect_common_issues: the DetectionResult (NotCalled before)
    dstages,      \* detect_common_issues: the analysis stages it entered
    issueList,    \* _calculate_detection_confidence: the issues argument
    dconfidence,  \* _calculate_detection_confidence: its value (NotCalled before)
    cache,        \* ScreenshotCapture.cache: the entries of the dict
    files,        \* the screenshot files that exist
    clock,        \* datetime.now(), in seconds
    ncalls,       \* calls made on the ScreenshotCapture so far
    lastCall,     \* the last call on the ScreenshotCapture and what it gave
    simPair,      \* calculate_file_similarity: the two paths compared
    simOut,       \* calculate_file_similarity: what it gave for (file1, file2),
                  \* for (file2, file1) and for (file1, file1) (NotCalled before)
    shot,         \* ExternalValidationSuite: the CaptureResult handed to it
    baselineDir,  \* the entries of baseline_directory
    platformDir,  \* the entries of platform_reference_directory
    valOut,       \* validate_against_references: the similarity it computed for
                  \* each reference file, its list validations and its result
                  \* (NotCalled before)
    qshot,        \* calculate_quality_metrics: the CaptureResult argument
    qOut,         \* calculate_quality_metrics: the QualityMetrics (NotCalled before)
    basic,        \* a BasicAppContext: the class name of its app_source and its metadata
    now,          \* datetime.now(timezone.utc) as the BasicAppContext sees it
    hashes        \* get_state_hash: the calls made, each with its instant and its value

parseVars == <<raw, parsed, reparsed>>

seqVars == <<interactions, vresult>>

pilotVars == <<pList, exec>>

detVars == <<capture, enable_svg_analysis, dresult, dstages>>

confVars == <<issueList, dconfidence>>

engineVars == <<cache, files, clock, ncalls, lastCall>>

simVars == <<simPair, simOut>>

valVars == <<shot, baselineDir, platformDir, valOut>>

qualityVars == <<qshot, qOut>>

hashVars == <<basic, now, hashes>>

vars == <<parseVars, seqVars, pilotVars, detVars, confVars, engineVars, simVars, valVars, qualityVars, hashVars>>

\* the variables an operation of one component leaves alone
exceptParse == <<seqVars, pilotVars, detVars, confVars, engineVars, simVars, valVars, qualityVars, hashVars>>

exceptSeq == <<parseVars, pilotVars, detVars, confVars, engineVars, simVars, valVars, qualityVars, hashVars>>

exceptPilot == <<parseVars, seqVars, detVars, confVars, engineVars, simVars, valVars, qualityVars, hashVars>>

exceptDet == <<parseVars, seqVars, pilotVars, confVars, engineVars, simVars, valVars, qualityVars, hashVars>>

exceptConf == <<parseVars, seqVars, pilotVars, detVars, engineVars, simVars, valVars, qualityVars, hashVars>>

exceptEngine == <<parseVars, seqVars, pilotVars, detVars, confVars, simVars, valVars, qualityVars, hashVars>>

exceptSim == <<parseVars, seqVars, pilotVars, detVars, confVars, engineVars, valVars, qualityVars, hashVars>>

exceptVal == <<parseVars, seqVars, pilotVars, detVars, confVars, engineVars, simVars, qualityVars, hashVars>>

exceptQuality == <<parseVars, seqVars, pilotVars, detVars, confVars, engineVars, simVars, valVars, hashVars>>

exceptHash == <<parseVars, seqVars, pilotVars, detVars, confVars, engineVars, simVars, valVars, qualityVars>>

NotCalled == [called |-> FALSE]

----------------------------------------------------------------------------
(* Bounds and input alphabets                                              *)

\* longest target text (the text after the first ':') of a generated command
MaxTargetLen == 3

\* longest interaction list handed to validate_sequence
MaxSeqLen == 3

\* longest interaction list handed to _perform_interactions
MaxPilotLen == 3

\* longest issue list handed to _calculate_detection_confidence on its own
MaxIssues == 3

\* bits of the significand of a float (Python floats have 53)
Precision == 6

\* plugins registered with a ScreenshotCapture
NumPlugins == 2

\* calls (captures, lookups, cleanups) made on one ScreenshotCapture
MaxCalls == 3

\* the captures with interactions made on one ScreenshotCapture
MaxCaptures == 2

\* the calls of get_state_hash on one context
MaxHashCalls == 3

\* most elements of one tag in a generated document
MaxCount == 3

\* most reference files in the baseline and the platform directory together
MaxRefs == 3

\* characters a generated target is made of: a letter, the letters of "nan",
\* blank, digits, sign, decimal point and a second colon
TargetChars == {"a", "n", " ", "0", "1", "-", ".", ":"}

\* the kinds a generated command starts with: the five of the grammar, an
\* unknown one and the empty one
KindTexts == {<<"p","r","e","s","s">>, <<"c","l","i","c","k">>, <<"h","o","v","e","r">>, <<"t","y","p","e">>, <<"w","a","i","t">>, <<"t","a","p">>, <<>>}

StringsUpTo(chars, n) == UNION {[1..k -> chars] : k \in 0..n}

\* commands "kind:target"
ColonInputs == {k \o <<":">> \o t : k \in KindTexts, t \in StringsUpTo(TargetChars, MaxTargetLen)}

\* commands without any ':'
BareInputs == StringsUpTo(TargetChars \ {":"}, MaxTargetLen)

RawInputs == ColonInputs \cup BareInputs

----------------------------------------------------------------------------
(* Python string primitives                                                *)

Whitespace == {" "}

Digits == {"0", "1", "2", "3", "4", "5", "6", "7", "8", "9"}

\* c in s
Contains(s, c) == \E i \in 1..Len(s) : s[i] = c

\* s.startswith(p)
startswith(s, p) == Len(p) <= Len(s) /\ SubSeq(s, 1, Len(p)) = p

\* sub in s
IsSubstring(sub, s) ==
    \E i \in 1..(Len(s) - Len(sub) + 1) : SubSeq(s, i, i + Len(sub) - 1) = sub

\* s.split(":", 1) of a string that holds a ':' : [0] and [1]
FirstColon(s) == CHOOSE i \in 1..Len(s) : s[i] = ":" /\ \A j \in 1..(i-1) : s[j] # ":"

SplitHead(s) == SubSeq(s, 1, FirstColon(s) - 1)

SplitTail(s) == SubSeq(s, FirstColon(s) + 1, Len(s))

\* s.strip()
strip(s) ==
    IF \A i \in 1..Len(s) : s[i] \in Whitespace THEN <<>>
    ELSE LET lo == CHOOSE i \in 1..Len(s) :
                       s[i] \notin Whitespace /\ \A j \in 1..(i-1) : s[j] \in Whitespace
             hi == CHOOSE i \in 1..Len(s) :
                       s[i] \notin Whitespace /\ \A j \in (i+1)..Len(s) : s[j] \in Whitespace
         IN SubSeq(s, lo, hi)

\* float(s): whether the conversion succeeds, and of the value whether it is
\* NaN and whether it is < 0.  Python's grammar for lower-case text without
\* exponent or digit-group underscore (no generated target holds e, E or _):
\* blanks around are stripped, an optional sign, then "nan", "inf",
\* "infinity", or digits with at most one decimal point and at least one digit.
FloatBody(s) ==
    LET u == strip(s)
    IN IF u # <<>> /\ u[1] \in {"-", "+"} THEN Tail(u) ELSE u

FloatSign(s) ==
    LET u == strip(s)
    IN IF u # <<>> /\ u[1] = "-" THEN "-" ELSE "+"

IsDecimal(b) ==
    /\ \A i \in 1..Len(b) : b[i] \in Digits \cup {"."}
    /\ \E i \in 1..Len(b) : b[i] \in Digits
    /\ Cardinality({i \in 1..Len(b) : b[i] = "."}) <= 1

float(s) ==
    LET b == FloatBody(s)
    IN IF b = <<"n","a","n">> THEN [ok |-> TRUE, nan |-> TRUE, negative |-> FALSE]
       ELSE IF b \in {<<"i","n","f">>, <<"i","n","f","i","n","i","t","y">>}
            THEN [ok |-> TRUE, nan |-> FALSE, negative |-> FloatSign(s) = "-"]
       ELSE IF IsDecimal(b)
            THEN [ok |-> TRUE, nan |-> FALSE,
                  negative |-> FloatSign(s) = "-" /\ \E i \in 1..Len(b) : b[i] \in Digits \ {"0"}]
            ELSE [ok |-> FALSE, nan |-> FALSE, negative |-> FALSE]


----------------------------------------------------------------------------
(* interactions.py: InteractionValidator                                   *)

\* an InteractionValidationError(message, suggestions, examples) raised
Raise(message, suggestions, examples) ==
    [ok |-> FALSE, message |-> message, suggestions |-> suggestions, examples |-> examples]

\* a string returned
Return(value) == [ok |-> TRUE, value |-> value]

\* a variant whose examples are fixed texts that do not quote the input
MissingSeparatorErrorFixedExamples(s) ==
    Raise(<<"I","n","t","e","r","a","c","t","i","o","n"," ","'">> \o s \o <<"'"," ","m","i","s","s","i","n","g"," ","r","e","q","u","i","r","e","d"," ","'",":","'"," ","s","e","p","a","r","a","t","o","r","."," ","A","l","l"," ","i","n","t","e","r","a","c","t","i","o","n","s"," ","m","u","s","t"," ","u","s","e"," ","'","t","y","p","e",":","t","a","r","g","e","t","'"," ","f","o","r","m","a","t",".">>,
          << <<"C","h","a","n","g","e"," ","'">> \o s \o <<"'"," ","t","o"," ","'","p","r","e","s","s",":">> \o s \o <<"'"," ","f","o","r"," ","k","e","y"," ","p","r","e","s","s","e","s">>,
             <<"C","h","a","n","g","e"," ","'">> \o s \o <<"'"," ","t","o"," ","'","c","l","i","c","k",":","#">> \o s \o <<"'"," ","f","o","r"," ","e","l","e","m","e","n","t"," ","c","l","i","c","k","s"," ","b","y"," ","I","D">>,
             <<"C","h","a","n","g","e"," ","'">> \o s \o <<"'"," ","t","o"," ","'","c","l","i","c","k",":">> \o s \o <<"'"," ","f","o","r"," ","C","S","S"," ","s","e","l","e","c","t","o","r","s">>,
             <<"U","s","e"," ","'","t","y","p","e",":","t","e","x","t","'"," ","f","o","r"," ","t","e","x","t"," ","i","n","p","u","t">>,
             <<"U","s","e"," ","'","w","a","i","t",":","s","e","c","o","n","d","s","'"," ","f","o","r"," ","d","e","l","a","y","s">> >>,
          << <<"p","r","e","s","s",":","e","n","t","e","r">>, <<"c","l","i","c","k",":","#","b","u","t","t","o","n">>, <<"c","l","i","c","k",":",".","s","u","b","m","i","t">>, <<"c","l","i","c","k",":","B","u","t","t","o","n">> >>)

MissingSeparatorError(s) ==
    Raise(<<"I","n","t","e","r","a","c","t","i","o","n"," ","'">> \o s \o <<"'"," ","m","i","s","s","i","n","g"," ","r","e","q","u","i","r","e","d"," ","'",":","'"," ","s","e","p","a","r","a","t","o","r","."," ","A","l","l"," ","i","n","t","e","r","a","c","t","i","o","n","s"," ","m","u","s","t"," ","u","s","e"," ","'","t","y","p","e",":","t","a","r","g","e","t","'"," ","f","o","r","m","a","t",".">>,
          << <<"C","h","a","n","g","e"," ","'">> \o s \o <<"'"," ","t","o"," ","'","p","r","e","s","s",":">> \o s \o <<"'"," ","f","o","r"," ","k","e","y"," ","p","r","e","s","s","e","s">>,
             <<"C","h","a","n","g","e"," ","'">> \o s \o <<"'"," ","t","o"," ","'","c","l","i","c","k",":","#">> \o s \o <<"'"," ","f","o","r"," ","e","l","e","m","e","n","t"," ","c","l","i","c","k","s"," ","b","y"," ","I","D">>,
             <<"C","h","a","n","g","e"," ","'">> \o s \o <<"'"," ","t","o"," ","'","c","l","i","c","k",":">> \o s \o <<"'"," ","f","o","r"," ","C","S","S"," ","s","e","l","e","c","t","o","r","s">>,
             <<"U","s","e"," ","'","t","y","p","e",":","t","e","x","t","'"," ","f","o","r"," ","t","e","x","t"," ","i","n","p","u","t">>,
             <<"U","s","e"," ","'","w","a","i","t",":","s","e","c","o","n","d","s","'"," ","f","o","r"," ","d","e","l","a","y","s">> >>,
          << <<"p","r","e","s","s",":">> \o s \o <<" "," ","#"," ","i","f"," ","t","h","i","s"," ","i","s"," ","a"," ","k","e","y"," ","p","r","e","s","s">>,
             <<"c","l","i","c","k",":","#">> \o s \o <<" "," ","#"," ","i","f"," ","t","h","i","s"," ","i","s"," ","a","n"," ","e","l","e","m","e","n","t"," ","I","D">>,
             <<"c","l","i","c","k",":",".">> \o s \o <<" "," ","#"," ","i","f"," ","t","h","i","s"," ","i","s"," ","a"," ","C","S","S"," ","c","l","a","s","s">>,
             <<"c","l","i","c","k",":">> \o s \o <<" "," ","#"," ","i","f"," ","t","h","i","s"," ","i","s"," ","a"," ","C","S","S"," ","s","e","l","e","c","t","o","r">> >>)

PressError ==
    Raise(<<"P","r","e","s","s"," ","a","c","t","i","o","n"," ","m","i","s","s","i","n","g"," ","k","e","y"," ","n","a","m","e">>,
          << <<"S","p","e","c","i","f","y"," ","w","h","i","c","h"," ","k","e","y"," ","t","o"," ","p","r","e","s","s">>, <<"C","o","m","m","o","n"," ","k","e","y","s",":"," ","e","n","t","e","r",","," ","f","2",","," ","e","s","c","a","p","e",","," ","c","t","r","l","+","c">> >>,
          << <<"p","r","e","s","s",":","e","n","t","e","r">>, <<"p","r","e","s","s",":","f","2">>, <<"p","r","e","s","s",":","e","s","c","a","p","e">>, <<"p","r","e","s","s",":","c","t","r","l","+","c">> >>)

ClickError ==
    Raise(<<"C","l","i","c","k"," ","a","c","t","i","o","n"," ","m","i","s","s","i","n","g"," ","s","e","l","e","c","t","o","r">>,
          << <<"S","p","e","c","i","f","y"," ","e","l","e","m","e","n","t"," ","s","e","l","e","c","t","o","r">>, <<"U","s","e"," ","#","i","d",","," ",".","c","l","a","s","s",","," ","o","r"," ","e","l","e","m","e","n","t"," ","n","a","m","e">> >>,
          << <<"c","l","i","c","k",":","#","b","u","t","t","o","n">>, <<"c","l","i","c","k",":",".","s","u","b","m","i","t">>, <<"c","l","i","c","k",":","B","u","t","t","o","n">> >>)

HoverError ==
    Raise(<<"H","o","v","e","r"," ","a","c","t","i","o","n"," ","m","i","s","s","i","n","g"," ","s","e","l","e","c","t","o","r">>,
          << <<"S","p","e","c","i","f","y"," ","e","l","e","m","e","n","t"," ","s","e","l","e","c","t","o","r">>, <<"U","s","e"," ","#","i","d",","," ",".","c","l","a","s","s",","," ","o","r"," ","e","l","e","m","e","n","t"," ","n","a","m","e">> >>,
          << <<"h","o","v","e","r",":","#","m","e","n","u">>, <<"h","o","v","e","r",":",".","d","r","o","p","d","o","w","n">>, <<"h","o","v","e","r",":","B","u","t","t","o","n">> >>)

\* the message ends with the repr of the parsed duration, which is left out
NegativeWaitError ==
    Raise(<<"W","a","i","t"," ","d","u","r","a","t","i","o","n"," ","c","a","n","n","o","t"," ","b","e"," ","n","e","g","a","t","i","v","e",":"," ">>,
          << <<"U","s","e"," ","p","o","s","i","t","i","v","e"," ","n","u","m","b","e","r","s"," ","f","o","r"," ","w","a","i","t"," ","t","i","m","e","s">>, <<"C","o","m","m","o","n"," ","v","a","l","u","e","s",":"," ","0",".","1",","," ","0",".","5",","," ","1",".","0",","," ","2",".","0">> >>,
          << <<"w","a","i","t",":","0",".","5">>, <<"w","a","i","t",":","1",".","0">>, <<"w","a","i","t",":","2",".","0">> >>)

WaitNumberError(target) ==
    Raise(<<"W","a","i","t"," ","d","u","r","a","t","i","o","n"," ","'">> \o target \o <<"'"," ","m","u","s","t"," ","b","e"," ","a"," ","n","u","m","b","e","r">>,
          << <<"U","s","e"," ","d","e","c","i","m","a","l"," ","n","u","m","b","e","r","s"," ","f","o","r"," ","w","a","i","t"," ","t","i","m","e","s">>, <<"C","o","m","m","o","n"," ","v","a","l","u","e","s",":"," ","0",".","1",","," ","0",".","5",","," ","1",".","0",","," ","2",".","0">> >>,
          << <<"w","a","i","t",":","0",".","5">>, <<"w","a","i","t",":","1",".","0">>, <<"w","a","i","t",":","2",".","0">> >>)

UnknownTypeError(action_type) ==
    Raise(<<"U","n","k","n","o","w","n"," ","i","n","t","e","r","a","c","t","i","o","n"," ","t","y","p","e"," ","'">> \o action_type \o <<"'">>,
          << <<"U","s","e"," ","'","p","r","e","s","s",":","'"," ","f","o","r"," ","k","e","y","b","o","a","r","d"," ","i","n","t","e","r","a","c","t","i","o","n","s">>,
             <<"U","s","e"," ","'","c","l","i","c","k",":","'"," ","f","o","r"," ","m","o","u","s","e"," ","c","l","i","c","k","s">>,
             <<"U","s","e"," ","'","h","o","v","e","r",":","'"," ","f","o","r"," ","h","o","v","e","r"," ","a","c","t","i","o","n","s">>,
             <<"U","s","e"," ","'","t","y","p","e",":","'"," ","f","o","r"," ","t","e","x","t"," ","i","n","p","u","t">>,
             <<"U","s","e"," ","'","w","a","i","t",":","'"," ","f","o","r"," ","d","e","l","a","y","s">> >>,
          << <<"p","r","e","s","s",":","e","n","t","e","r">>, <<"c","l","i","c","k",":","#","b","u","t","t","o","n">>, <<"h","o","v","e","r",":",".","m","e","n","u","-","i","t","e","m">>, <<"t","y","p","e",":","h","e","l","l","o"," ","w","o","r","l","d">>, <<"w","a","i","t",":","1",".","0">> >>)

\* the wait branch: float(target), then the test duration < 0
parse_wait(s, target) ==
    IF ~float(target).ok THEN WaitNumberError(target)
    ELSE IF float(target).negative THEN NegativeWaitError
    ELSE Return(s)

\* parse_interaction(interaction_string) for a string argument
parse_interaction(s) ==
    IF ~Contains(s, ":") THEN MissingSeparatorError(s)
    ELSE LET action_type == SplitHead(s)
             target == SplitTail(s)
         IN CASE action_type = <<"p","r","e","s","s">> -> IF strip(target) = <<>> THEN PressError ELSE Return(s)
              [] action_type = <<"c","l","i","c","k">> -> IF strip(target) = <<>> THEN ClickError ELSE Return(s)
              [] action_type = <<"h","o","v","e","r">> -> IF strip(target) = <<>> THEN HoverError ELSE Return(s)
              [] action_type = <<"t","y","p","e">> -> Return(s)
              [] action_type = <<"w","a","i","t">> -> parse_wait(s, target)
              [] OTHER -> UnknownTypeError(action_type)

\* str(n) of a small count
str_int(n) == << <<"0">>, <<"1">>, <<"2">>, <<"3">>, <<"4">>, <<"5">>, <<"6">>, <<"7">>, <<"8">>, <<"9">> >>[n + 1]

\* the dictionary appended to errors: index, interaction and e.to_dict()
ErrorEntry(i, interaction, e) ==
    [index |-> i, interaction |-> interaction, message |-> e.message,
     suggestions |-> e.suggestions, examples |-> e.examples]

\* a variant that also keeps a failing item among the validated ones
ScanStepKeepsFailed(acc, items, k) ==
    LET r == parse_interaction(items[k])
    IN IF r.ok
       THEN [acc EXCEPT !.validated = Append(@, r.value)]
       ELSE [acc EXCEPT !.validated = Append(@, items[k]),
                        !.errors = Append(@, ErrorEntry(k - 1, items[k], r))]

\* one pass of the for loop of validate_sequence over item k (1-based here,
\* enumerate's index is k - 1)
ScanStep(acc, items, k) ==
    LET r == parse_interaction(items[k])
    IN IF r.ok
       THEN [acc EXCEPT !.validated = Append(@, r.value)]
       ELSE [acc EXCEPT !.errors = Append(@, ErrorEntry(k - 1, items[k], r))]

\* a variant that leaves the loop at the first failing item
RECURSIVE ScanLoopStopsAtError(_, _, _)
ScanLoopStopsAtError(acc, items, k) ==
    IF k > Len(items) \/ acc.errors # <<>> THEN acc
    ELSE ScanLoopStopsAtError(ScanStep(acc, items, k), items, k + 1)

RECURSIVE ScanLoop(_, _, _)
ScanLoop(acc, items, k) ==
    IF k > Len(items) THEN acc ELSE ScanLoop(ScanStep(acc, items, k), items, k + 1)

SequenceSuggestions(errors, items) ==
    IF errors # <<>>
    THEN << <<"C","h","e","c","k"," ","t","h","e"," ","i","n","t","e","r","a","c","t","i","o","n"," ","f","o","r","m","a","t"," ","d","o","c","u","m","e","n","t","a","t","i","o","n"," ","f","o","r"," ","e","x","a","m","p","l","e","s">>,
            <<"A","l","l"," ","i","n","t","e","r","a","c","t","i","o","n","s"," ","m","u","s","t"," ","u","s","e"," ","'","t","y","p","e",":","t","a","r","g","e","t","'"," ","f","o","r","m","a","t"," ","w","i","t","h"," ","c","o","l","o","n"," ","s","e","p","a","r","a","t","o","r">>,
            <<"C","o","m","m","o","n"," ","m","i","s","t","a","k","e",":"," ","u","s","i","n","g"," ","b","a","r","e"," ","s","t","r","i","n","g","s"," ","i","n","s","t","e","a","d"," ","o","f"," ","p","r","e","f","i","x","e","d"," ","f","o","r","m","a","t">>,
            <<"F","o","u","n","d"," ">> \o str_int(Len(errors)) \o <<" ","f","o","r","m","a","t"," ","e","r","r","o","r","(","s",")"," ","i","n"," ">>
                \o str_int(Len(items)) \o <<" ","i","n","t","e","r","a","c","t","i","o","n","(","s",")">> >>
    ELSE <<>>

validate_sequence(items) ==
    LET acc == ScanLoop([validated |-> <<>>, errors |-> <<>>], items, 1)
    IN [called |-> TRUE,
        is_valid |-> Len(acc.errors) = 0,
        validated_interactions |-> acc.validated,
        errors |-> acc.errors,
        suggestions |-> SequenceSuggestions(acc.errors, items)]


----------------------------------------------------------------------------
(* capture.py: ScreenshotCapture._perform_interactions                     *)

\* the branch the if/elif chain takes for one interaction
Branch(interaction) ==
    IF startswith(interaction, <<"p","r","e","s","s",":">>) THEN "press"
    ELSE IF startswith(interaction, <<"c","l","i","c","k",":">>) THEN "click"
    ELSE IF startswith(interaction, <<"h","o","v","e","r",":">>) THEN "hover"
    ELSE IF startswith(interaction, <<"t","y","p","e",":">>) THEN "type"
    ELSE IF startswith(interaction, <<"w","a","i","t",":">>) THEN "wait"
    ELSE "unknown"

\* a variant that strips the text after the prefix
Argument_stripped(interaction) == strip(SplitTail(interaction))

\* interaction.split(":", 1)[1] in a branch that found its prefix
Argument(interaction) == SplitTail(interaction)

Event(ev, item, op, arg) == [ev |-> ev, item |-> item, op |-> op, arg |-> arg]

ExecStart ==
    [pc |-> "loop", idx |-> 1, char |-> 0, inFlight |-> 0, error |-> "none", trace |-> <<>>]

\* a variant that starts the pilot call without awaiting it: the coroutine
\* goes on to the pause that follows
AwaitPilotNotAwaited(e, op, arg) ==
    [e EXCEPT !.trace = Append(Append(@, Event("call", e.idx, op, arg)),
                               Event("sleep_begin", e.idx, "sleep",
                                     IF op = "press" /\ e.char > 0 THEN <<"0",".","0","5">> ELSE <<"0",".","1">>)),
              !.inFlight = @ + 1,
              !.pc = IF op = "press" /\ e.char > 0 THEN "inTypeSleep" ELSE "inSettle"]

\* await pilot.<op>(arg): the call starts and the coroutine is suspended in it
AwaitPilot(e, op, arg) ==
    [e EXCEPT !.trace = Append(@, Event("call", e.idx, op, arg)),
              !.inFlight = @ + 1,
              !.pc = "inPilot"]

\* await asyncio.sleep(d): the coroutine is suspended until the pause is over
AwaitSleep(e, d, pc) ==
    [e EXCEPT !.trace = Append(@, Event("sleep_begin", e.idx, "sleep", d)), !.pc = pc]

\* an exception leaves _perform_interactions
Propagate(e, error) ==
    [e EXCEPT !.trace = Append(@, Event("raise", e.idx, error, <<>>)),
              !.pc = "raised", !.error = error]

\* the top of the for loop: the next interaction is dispatched up to its first
\* await, or the loop is over and the coroutine returns
LoopStep(e, items) ==
    IF e.idx > Len(items) THEN [e EXCEPT !.pc = "done"]
    ELSE LET interaction == items[e.idx]
             branch == Branch(interaction)
         IN CASE branch \in {"press", "click", "hover"} ->
                     AwaitPilot([e EXCEPT !.char = 0], branch, Argument(interaction))
              [] branch = "type" ->
                     IF Argument(interaction) = <<>>
                     THEN AwaitSleep([e EXCEPT !.char = 0], <<"0",".","1">>, "inSettle")
                     ELSE AwaitPilot([e EXCEPT !.char = 1], "press", <<Argument(interaction)[1]>>)
              [] branch = "wait" ->
                     IF float(Argument(interaction)).ok
                     THEN AwaitSleep([e EXCEPT !.char = 0], Argument(interaction), "inWait")
                     ELSE Propagate(e, "ValueError: could not convert string to float")
              [] OTHER ->
                     AwaitSleep([e EXCEPT !.char = 0,
                                          !.trace = Append(@, Event("warn", e.idx, "logger.warning", interaction))],
                                <<"0",".","1">>, "inSettle")

\* the pilot call in flight completes: the pause after it begins
PilotReturns(e, items) ==
    LET done == [e EXCEPT !.trace = Append(@, Event("return", e.idx, "pilot", <<>>)),
                          !.inFlight = @ - 1]
    IN IF Branch(items[e.idx]) = "type"
       THEN AwaitSleep(done, <<"0",".","0","5">>, "inTypeSleep")
       ELSE AwaitSleep(done, <<"0",".","1">>, "inSettle")

\* the pilot call in flight raises
PilotFails(e) ==
    Propagate([e EXCEPT !.inFlight = @ - 1], "pilot exception")

\* the 0.05 s pause after a typed character is over: the next character, or
\* the pause after the interaction
TypeSleepOver(e, items) ==
    LET woke == [e EXCEPT !.trace = Append(@, Event("sleep_end", e.idx, "sleep", <<"0",".","0","5">>))]
        text == Argument(items[e.idx])
    IN IF e.char < Len(text)
       THEN AwaitPilot([woke EXCEPT !.char = e.char + 1], "press", <<text[e.char + 1]>>)
       ELSE AwaitSleep(woke, <<"0",".","1">>, "inSettle")

\* the pause of a wait: interaction is over
WaitOver(e, items) ==
    AwaitSleep([e EXCEPT !.trace = Append(@, Event("sleep_end", e.idx, "sleep", Argument(items[e.idx])))],
               <<"0",".","1">>, "inSettle")

\* the 0.1 s pause after an interaction is over: on to the next one
SettleOver(e) ==
    [e EXCEPT !.trace = Append(@, Event("sleep_end", e.idx, "sleep", <<"0",".","1">>)),
              !.idx = @ + 1, !.pc = "loop"]

----------------------------------------------------------------------------
(* detection.py: ProactiveErrorDetector                                    *)

\* default file_size_thresholds, in bytes
critical_min == 1000

warning_min == 2000

optimal_max == 1000000

critical_max == 5000000

\* default content_thresholds; text_density_min is 0.1, held in tenths
min_elements == 3

min_element_types == 2

text_density_min_tenths == 1

\* severity_weights and the weight of any other severity, the literals in tenths
weight_critical == 10

weight_warning == 7

weight_info == 4

weight_other == 5

\* Python floats are binary floating point numbers and every operation rounds
\* its exact result to the nearest one, ties to the even significand.  A float
\* is held as the quotient [num, den] of its value in lowest terms, den a power
\* of two; the significand has Precision bits.  The values met here lie below
\* 2^(Precision - 1).
Rat(num, den) == [num |-> num, den |-> den]

RatEq(a, b) == a.num * b.den = b.num * a.den

RatLess(a, b) == a.num * b.den < b.num * a.den

RECURSIVE Pow2(_)
Pow2(k) == IF k = 0 THEN 1 ELSE 2 * Pow2(k - 1)

RECURSIVE Lowest(_, _)
Lowest(num, den) ==
    IF den > 1 /\ num % 2 = 0 /\ den % 2 = 0 THEN Lowest(num \div 2, den \div 2) ELSE Rat(num, den)

\* the least s with num * 2^s / den at least 2^(Precision - 1)
RECURSIVE Scale(_, _, _)
Scale(num, den, s) ==
    IF num * Pow2(s) >= den * Pow2(Precision - 1) THEN s ELSE Scale(num, den, s + 1)

\* the float nearest to num / den, ties to even
Round(num, den) ==
    IF num = 0 THEN Rat(0, 1)
    ELSE LET q0 == Lowest(num, den)
             s == Scale(q0.num, q0.den, 0)
             q == (q0.num * Pow2(s)) \div q0.den
             r == (q0.num * Pow2(s)) % q0.den
             m == IF 2 * r > q0.den \/ (2 * r = q0.den /\ q % 2 = 1) THEN q + 1 ELSE q
         IN Lowest(m, Pow2(s))

Max(a, b) == IF a >= b THEN a ELSE b

\* x + y, x * y and x / y of floats
fadd(x, y) ==
    LET den == Max(x.den, y.den)
    IN Round(x.num * (den \div x.den) + y.num * (den \div y.den), den)

fmul(x, y) == Round(x.num * y.num, x.den * y.den)

fdiv(x, y) == Round(x.num * y.den, x.den * y.num)

\* max(x, 1)
fmax1(x) == IF RatLess(x, Rat(1, 1)) THEN Rat(1, 1) ELSE x

\* the float of a decimal literal with one fractional digit: Tenths(7) is 0.7
Tenths(k) == Round(k, 10)

\* the largest float below 1.0
BelowOne == Rat(Pow2(Precision) - 1, Pow2(Precision))

\* Issue(category, description, severity, confidence): the description without
\* the numbers formatted into it
Issue(category, description, severity, confidence) ==
    [category |-> category, description |-> description,
     severity |-> severity, confidence |-> confidence]

\* what a stage hands back: its issues, or the exception that left it
Issues(issues) == [raised |-> FALSE, exc |-> "none", issues |-> issues]

Raised(exc) == [raised |-> TRUE, exc |-> exc, issues |-> <<>>]

\* a variant whose small-file warning includes the warning threshold itself
_analyze_file_size_inclusive(c) ==
    LET file_size == c.file_size_bytes
    IN IF file_size < critical_min
       THEN <<Issue("empty_screen", "Screenshot file too small - likely empty screen", "critical", Tenths(9))>>
       ELSE IF file_size <= warning_min
       THEN <<Issue("empty_screen", "Screenshot file small - possible content issue", "warning", Tenths(7))>>
       ELSE IF file_size > critical_max
       THEN <<Issue("capture_quality", "Screenshot file very large - possible capture issue", "critical", Tenths(8))>>
       ELSE IF file_size > optimal_max
       THEN <<Issue("capture_quality", "Screenshot file large - consider optimization", "info", Tenths(6))>>
       ELSE <<>>

\* ProactiveErrorDetector._analyze_file_size(screenshot_result)
_analyze_file_size(c) ==
    LET file_size == c.file_size_bytes
    IN IF file_size < critical_min
       THEN <<Issue("empty_screen", "Screenshot file too small - likely empty screen", "critical", Tenths(9))>>
       ELSE IF file_size < warning_min
       THEN <<Issue("empty_screen", "Screenshot file small - possible content issue", "warning", Tenths(7))>>
       ELSE IF file_size > critical_max
       THEN <<Issue("capture_quality", "Screenshot file very large - possible capture issue", "critical", Tenths(8))>>
       ELSE IF file_size > optimal_max
       THEN <<Issue("capture_quality", "Screenshot file large - consider optimization", "info", Tenths(6))>>
       ELSE <<>>

\* s.endswith(p)
endswith(s, p) == Len(p) <= Len(s) /\ SubSeq(s, Len(s) - Len(p) + 1, Len(s)) = p

\* tag.split("}")[-1] if "}" in tag else tag
LocalName(tag) ==
    IF Contains(tag, "}")
    THEN LET last == CHOOSE i \in 1..Len(tag) : tag[i] = "}" /\ \A j \in (i+1)..Len(tag) : tag[j] # "}"
         IN SubSeq(tag, last + 1, Len(tag))
    ELSE tag

\* the elements of root.iter() that count as text elements
TextElements(elems) == SelectSeq(elems, LAMBDA el : endswith(el.tag, <<"t","e","x","t">>) \/ el.tag = <<"t","e","x","t">>)

\* sum(len(elem.text or "") for elem in text_elements)
RECURSIVE TotalTextLength(_)
TotalTextLength(els) == IF els = <<>> THEN 0 ELSE Len(Head(els).text) + TotalTextLength(Tail(els))

_validate_svg_structure_integrity(root_attrib) ==
    (IF "viewBox" \notin root_attrib
     THEN <<Issue("rendering_failures", "SVG missing viewBox - may cause rendering inconsistencies", "warning", Tenths(7))>>
     ELSE <<>>)
    \o (IF ~("width" \in root_attrib /\ "height" \in root_attrib)
        THEN <<Issue("rendering_failures", "SVG missing width/height attributes - may affect display", "info", Tenths(6))>>
        ELSE <<>>)

\* the body of _analyze_svg_structure for a document that parsed
StructureIssues(file) ==
    LET all_elements == file.elems
        visible_text == SelectSeq(TextElements(all_elements), LAMBDA el : strip(el.text) # <<>>)
        unique_element_types == {LocalName(all_elements[i].tag) : i \in 1..Len(all_elements)}
    IN (IF Len(visible_text) = 0
        THEN <<Issue("empty_screen", "No visible text found in SVG - possible empty screen", "warning", Tenths(8))>>
        ELSE <<>>)
       \o (IF Len(all_elements) < min_elements
           THEN <<Issue("empty_screen", "Few SVG elements - possible incomplete render", "warning", Tenths(7))>>
           ELSE <<>>)
       \o (IF Cardinality(unique_element_types) < min_element_types
           THEN <<Issue("layout_issues", "Low element diversity - possible layout issue", "info", Tenths(6))>>
           ELSE <<>>)
       \o _validate_svg_structure_integrity(file.root_attrib)

\* _analyze_svg_structure: ParseError and UnicodeDecodeError become issues,
\* any other exception (the file cannot be opened) leaves the stage
_analyze_svg_structure(file) ==
    CASE file.state = "unreadable" -> Raised("OSError")
      [] file.state = "undecodable" ->
             Issues(<<Issue("rendering_failures", "SVG file encoding issue - possible corruption", "critical", Tenths(9))>>)
      [] file.state = "malformed" ->
             Issues(<<Issue("rendering_failures", "SVG parsing error - corrupted file structure", "critical", Tenths(9))>>)
      [] OTHER -> Issues(StructureIssues(file))

\* the tags of a document, each once, in the order element_counts first saw them
RECURSIVE TagOrder(_, _)
TagOrder(els, seen) ==
    IF els = <<>> THEN <<>>
    ELSE IF LocalName(Head(els).tag) \in seen THEN TagOrder(Tail(els), seen)
    ELSE <<LocalName(Head(els).tag)>> \o TagOrder(Tail(els), seen \cup {LocalName(Head(els).tag)})

RECURSIVE LoopIssues(_, _)
LoopIssues(tags, elems) ==
    IF tags = <<>> THEN <<>>
    ELSE LET count == Len(SelectSeq(elems, LAMBDA el : LocalName(el.tag) = Head(tags)))
         IN (IF Head(tags) # <<"s","v","g">> /\ count * 10 > Len(elems) * 8
             THEN <<Issue("rendering_failures", "Excessive elements - possible rendering loop", "warning", Tenths(7))>>
             ELSE <<>>)
            \o LoopIssues(Tail(tags), elems)

_detect_rendering_patterns(elems) == LoopIssues(TagOrder(elems, {}), elems)

\* _analyze_content_patterns: every exception becomes an analysis_error issue
_analyze_content_patterns(file) ==
    IF file.state # "ok"
    THEN <<Issue("analysis_error", "Content pattern analysis failed", "info", Tenths(3))>>
    ELSE LET total_text_length == TotalTextLength(TextElements(file.elems))
         IN (IF total_text_length > 0
                   /\ total_text_length * 10 < text_density_min_tenths * Max(file.st_size, 1)
             THEN <<Issue("layout_issues", "Low text density - possible truncated content", "info", Tenths(5))>>
             ELSE <<>>)
            \o _detect_rendering_patterns(file.elems)

Lower(c) ==
    LET m == "A" :> "a" @@ "B" :> "b" @@ "C" :> "c" @@ "D" :> "d" @@ "E" :> "e" @@ "F" :> "f" @@ "G" :> "g" @@ "H" :> "h" @@ "I" :> "i" @@ "J" :> "j" @@ "K" :> "k" @@ "L" :> "l" @@ "M" :> "m" @@ "N" :> "n" @@ "O" :> "o" @@ "P" :> "p" @@ "Q" :> "q" @@ "R" :> "r" @@ "S" :> "s" @@ "T" :> "t" @@ "U" :> "u" @@ "V" :> "v" @@ "W" :> "w" @@ "X" :> "x" @@ "Y" :> "y" @@ "Z" :> "z"
    IN IF c \in DOMAIN m THEN m[c] ELSE c

\* s.lower()
lower(s) == [i \in 1..Len(s) |-> Lower(s[i])]

error_indicators == << <<"e","r","r","o","r">>, <<"f","a","i","l">>, <<"c","r","a","s","h">>, <<"t","i","m","e","o","u","t">>, <<"e","x","c","e","p","t","i","o","n">> >>

\* one issue for the first indicator found, none if there is none
_analyze_context_patterns(context) ==
    IF \E k \in 1..Len(error_indicators) : IsSubstring(error_indicators[k], lower(context))
    THEN <<Issue("capture_quality", "Context name suggests error state - verify capture validity", "warning", Tenths(6))>>
    ELSE <<>>

_detect_platform_issues(c) ==
    (IF c.file_size_bytes > 0 /\ c.file_size_bytes % 1024 = 0
     THEN <<Issue("capture_quality", "File size exactly divisible by 1024 - possible platform truncation", "info", Tenths(4))>>
     ELSE <<>>)
    \o _analyze_context_patterns(c.context)

SeverityWeight(severity) ==
    CASE severity = "critical" -> weight_critical
      [] severity = "warning" -> weight_warning
      [] severity = "info" -> weight_info
      [] OTHER -> weight_other

\* total_weight after the loop: the weights added one by one from 0.0
RECURSIVE TotalWeight(_)
TotalWeight(issues) ==
    IF issues = <<>> THEN Rat(0, 1)
    ELSE LET n == Len(issues)
         IN fadd(TotalWeight(SubSeq(issues, 1, n - 1)), Tenths(SeverityWeight(issues[n].severity)))

\* weighted_confidence after the loop
RECURSIVE WeightedConfidence(_)
WeightedConfidence(issues) ==
    IF issues = <<>> THEN Rat(0, 1)
    ELSE LET n == Len(issues)
         IN fadd(WeightedConfidence(SubSeq(issues, 1, n - 1)),
                 fmul(issues[n].confidence, Tenths(SeverityWeight(issues[n].severity))))

\* weighted_confidence / max(total_weight, 1)
_calculate_detection_confidence(issues) ==
    IF issues = <<>> THEN Rat(1, 1)
    ELSE fdiv(WeightedConfidence(issues), fmax1(TotalWeight(issues)))

CountSeverity(issues, severity) == Len(SelectSeq(issues, LAMBDA i : i.severity = severity))

\* the DetectionResult of a capture that failed
FailedCaptureResult ==
    [called |-> TRUE,
     issues_detected |-> <<Issue("capture_failure", "Screenshot capture failed - cannot analyze", "critical", Tenths(10))>>,
     detection_confidence |-> Rat(1, 1),
     analysis_metadata |-> [analysis_type |-> "failed_capture"]]

\* the DetectionResult of the except branch of detect_common_issues
AnalysisErrorResult(exc) ==
    [called |-> TRUE,
     issues_detected |-> <<Issue("analysis_error", "Error during algorithmic analysis", "warning", Tenths(8))>>,
     detection_confidence |-> Tenths(5),
     analysis_metadata |-> [analysis_error |-> exc]]

\* a variant whose statistics leave the info issues out
CompletedResult_no_info(c, issues, methods) ==
    [called |-> TRUE,
     issues_detected |-> issues,
     detection_confidence |-> _calculate_detection_confidence(issues),
     analysis_metadata |->
         [analysis_methods |-> methods,
          total_issues_detected |-> Len(issues),
          critical_issues |-> CountSeverity(issues, "critical"),
          warning_issues |-> CountSeverity(issues, "warning"),
          info_issues |-> 0,
          file_size_bytes |-> c.file_size_bytes,
          format |-> c.format]]

\* the DetectionResult of an analysis that ran to its end
CompletedResult(c, issues, methods) ==
    [called |-> TRUE,
     issues_detected |-> issues,
     detection_confidence |-> _calculate_detection_confidence(issues),
     analysis_metadata |->
         [analysis_methods |-> methods,
          total_issues_detected |-> Len(issues),
          critical_issues |-> CountSeverity(issues, "critical"),
          warning_issues |-> CountSeverity(issues, "warning"),
          info_issues |-> CountSeverity(issues, "info"),
          file_size_bytes |-> c.file_size_bytes,
          format |-> c.format]]

\* the try block of detect_common_issues and its except branch, for a detector
\* with the default thresholds: the DetectionResult and the stages entered
AnalyzeCapture(c, enabled) ==
    LET svg == enabled /\ c.format = "svg"
        size_issues == _analyze_file_size(c)
        structure == _analyze_svg_structure(c.file)
        content_issues == _analyze_content_patterns(c.file)
        platform_issues == _detect_platform_issues(c)
    IN IF svg /\ structure.raised
       THEN [result |-> AnalysisErrorResult(structure.exc),
             stages |-> <<"file_size_analysis", "svg_structure_analysis">>]
       ELSE IF svg
       THEN [result |-> CompletedResult(c,
                            size_issues \o structure.issues \o content_issues \o platform_issues,
                            <<"file_size_analysis", "svg_structure_analysis",
                              "content_pattern_analysis", "platform_issue_detection">>),
             stages |-> <<"file_size_analysis", "svg_structure_analysis",
                          "content_pattern_analysis", "platform_issue_detection">>]
       ELSE [result |-> CompletedResult(c, size_issues \o platform_issues,
                            <<"file_size_analysis", "platform_issue_detection">>),
             stages |-> <<"file_size_analysis", "platform_issue_detection">>]

\* a variant that tests the success flag only
detect_common_issues_success_only(c, enabled) ==
    IF ~c.success
    THEN [result |-> FailedCaptureResult, stages |-> <<>>]
    ELSE AnalyzeCapture(c, enabled)

\* detect_common_issues(screenshot_result)
detect_common_issues(c, enabled) ==
    IF ~c.success \/ ~c.has_path
    THEN [result |-> FailedCaptureResult, stages |-> <<>>]
    ELSE AnalyzeCapture(c, enabled)

\* the artifacts: elements in root.iter() order, the root first; an element
\* without text has the empty text
El(tag, text) == [tag |-> tag, text |-> text]

SvgFile(root_attrib, elems, st_size) ==
    [state |-> "ok", root_attrib |-> root_attrib, elems |-> elems, st_size |-> st_size]

BrokenFile(state) == [state |-> state, root_attrib |-> {}, elems |-> <<>>, st_size |-> 0]

AllAttrib == {"viewBox", "width", "height"}

\* rect elements, n of them
Rects(n) == [k \in 1..n |-> El(<<"r","e","c","t">>, <<>>)]

FilePool ==
    { BrokenFile("unreadable"), BrokenFile("undecodable"), BrokenFile("malformed"),
      \* a healthy document, dense and sparse in text
      SvgFile(AllAttrib, <<El(<<"s","v","g">>, <<>>), El(<<"r","e","c","t">>, <<>>), El(<<"t","e","x","t">>, <<"h","e","l","l","o"," ","w","o","r","l","d">>), El(<<"g">>, <<>>)>>, 100),
      SvgFile(AllAttrib, <<El(<<"s","v","g">>, <<>>), El(<<"r","e","c","t">>, <<>>), El(<<"t","e","x","t">>, <<"a","b">>), El(<<"g">>, <<>>)>>, 4096),
      \* a bare root
      SvgFile({}, <<El(<<"s","v","g">>, <<>>)>>, 6),
      \* blank text only, no dimensions, namespaced tags
      SvgFile({"viewBox"}, <<El(<<"{","n","}","s","v","g">>, <<>>), El(<<"{","n","}","t","e","x","t">>, <<" ">>), El(<<"{","n","}","r","e","c","t">>, <<>>)>>, 4096),
      \* one tag above and at four fifths of the elements
      SvgFile(AllAttrib, <<El(<<"s","v","g">>, <<>>)>> \o Rects(5), 4096),
      SvgFile(AllAttrib, <<El(<<"s","v","g">>, <<>>), El(<<"t","e","x","t">>, <<"a","b">>)>> \o Rects(4), 4096),
      \* a root that is no svg element
      SvgFile({"width", "height"}, <<El(<<"g">>, <<>>)>>, 4096) }

SizePool ==
    {0, 500, 999, 1000, 1024, 1999, 2000, 2048, 5000, 1000000, 1000001, 1048576, 5000000, 5000001}

ContextPool == { <<"t","e","s","t">>, <<"E","r","r","o","r","_","s","t","a","t","e">>, <<"t","i","m","e","o","u","t"," ","f","a","i","l">> }

CapturePool ==
    [success : BOOLEAN, has_path : BOOLEAN, format : {"svg", "png"},
     file_size_bytes : SizePool, context : ContextPool, file : FilePool]

IssueInputs ==
    [category : {"test"}, description : {"test"},
     severity : {"critical", "warning", "info", "debug"},
     confidence : {Tenths(0), Tenths(6), Tenths(9), BelowOne, Tenths(10)}]

IssueListInputs == UNION {[1..n -> IssueInputs] : n \in 0..MaxIssues}

----------------------------------------------------------------------------
(* capture.py: BasicAppContext.get_state_hash                              *)

DecimalDigit == <<"0", "1", "2", "3", "4", "5", "6", "7", "8", "9">>

\* the decimal digits of n, zero-padded to width characters
RECURSIVE Decimal(_, _)
Decimal(n, width) ==
    IF width = 0 THEN <<>> ELSE Decimal(n \div 10, width - 1) \o <<DecimalDigit[(n % 10) + 1]>>

\* an instant of the first hour of 2024-01-01, UTC
DateTime(minute, second, microsecond) ==
    [minute |-> minute, second |-> second, microsecond |-> microsecond]

\* the microseconds of an instant since the start of the hour
Microseconds(dt) == (dt.minute * 60 + dt.second) * 1000000 + dt.microsecond

\* datetime.isoformat() of an aware UTC datetime: the fraction is left out
\* when the microsecond is 0
isoformat(dt) ==
    <<"2","0","2","4","-","0","1","-","0","1","T","0","0",":">> \o Decimal(dt.minute, 2) \o <<":">> \o Decimal(dt.second, 2)
    \o (IF dt.microsecond = 0 THEN <<>> ELSE <<".">> \o Decimal(dt.microsecond, 6))
    \o <<"+","0","0",":","0","0">>

\* s[:n]
Take(s, n) == SubSeq(s, 1, IF n < Len(s) THEN n ELSE Len(s))

\* hashlib.sha256(json.dumps(data, sort_keys=True, default=str).encode())
\* .hexdigest()[:16]: 16 hexadecimal characters that stand for the data; two
\* digests are equal exactly when the data are (no collision of the digest)
sha256_16(data) == [characters |-> 16, of |-> data]

\* BasicAppContext.get_state_hash() at the instant dt
get_state_hash(context, dt) ==
    sha256_16([app_class |-> context.app_class,
               metadata |-> context.metadata,
               timestamp |-> Take(isoformat(dt), 19)])

\* the contexts: an app class or an app instance as app_source, and metadata
\* as the set of its items
BasicAppContexts ==
    [app_class : {"type", "PredictableApp"},
     metadata : {{}, {<<"version", "1.0">>}, {<<"version", "2.0">>}}]

\* the instants: a second of a minute, the same second half a second later,
\* the next second, the last second of the minute, and the next minute
DateTimes ==
    {DateTime(0, 0, 0), DateTime(0, 0, 500000), DateTime(0, 1, 0), DateTime(0, 59, 0),
     DateTime(0, 59, 999999), DateTime(1, 0, 0), DateTime(1, 0, 500000)}

----------------------------------------------------------------------------
(* capture.py: ScreenshotCapture, its cache and its plugin hooks           *)

CACHE_TTL_SECONDS == 3600

\* Optional[...]: None is the empty sequence, a value the sequence of it
None == <<>>

Some(v) == <<v>>

\* the plugins handed to ScreenshotCapture, in registration order; each has
\* the four hooks of BasePlugin
Plugins == 1..NumPlugins

HookNames == {"pre_capture", "post_capture", "on_success", "on_failure"}

\* the content hashes of two app states captured under one context name
Keys == {[context |-> "main", state_hash |-> 1], [context |-> "main", state_hash |-> 2]}

\* screenshot_dir / f"{context}_{timestamp}.svg", the timestamp in seconds
PathOf(context, t) == [context |-> context, timestamp |-> t]

\* ScreenshotCache(content_hash, screenshot_path, created_at); access_count
\* starts at 0
ScreenshotCache(content_hash, screenshot_path, t) ==
    [content_hash |-> content_hash, screenshot_path |-> screenshot_path,
     created_at |-> t, access_count |-> 0]

\* self.cache.get(content_hash): the dict is held as the set of its values
CacheGet(c, content_hash) ==
    IF \E e \in c : e.content_hash = content_hash
    THEN Some(CHOOSE e \in c : e.content_hash = content_hash)
    ELSE None

\* del self.cache[content_hash]
CacheDel(c, content_hash) == {e \in c : e.content_hash # content_hash}

\* a variant that never looks at the age of the entry
_get_cache_entry_any_age(c, fs, t, content_hash) ==
    LET cache_entry == CacheGet(c, content_hash)
    IN IF cache_entry = None
       THEN [entry |-> None, cache |-> c]
       ELSE IF cache_entry[1].screenshot_path \notin fs
       THEN [entry |-> None, cache |-> CacheDel(c, content_hash)]
       ELSE [entry |-> cache_entry, cache |-> c]

\* _get_cache_entry(content_hash) at time t with the files fs: the entry it
\* returns and the cache it leaves
_get_cache_entry(c, fs, t, content_hash) ==
    LET cache_entry == CacheGet(c, content_hash)
    IN IF cache_entry = None
       THEN [entry |-> None, cache |-> c]
       ELSE IF cache_entry[1].screenshot_path \notin fs
       THEN [entry |-> None, cache |-> CacheDel(c, content_hash)]
       ELSE IF t - cache_entry[1].created_at > CACHE_TTL_SECONDS
       THEN [entry |-> None, cache |-> c]
       ELSE [entry |-> cache_entry, cache |-> c]

\* a variant that appends the new entry and keeps the old one of the key
_update_cache_keeps_old(c, content_hash, screenshot_path, t) ==
    c \cup {ScreenshotCache(content_hash, screenshot_path, t)}

\* _update_cache: self.cache[content_hash] = ScreenshotCache(...)
_update_cache(c, content_hash, screenshot_path, t) ==
    CacheDel(c, content_hash) \cup {ScreenshotCache(content_hash, screenshot_path, t)}

\* a variant that also removes the entries created exactly at the cutoff
cleanup_old_cache_entries_inclusive(c, t, max_age_hours) ==
    LET cutoff_time == t - max_age_hours * 3600
        old_entries == {e \in c : e.created_at <= cutoff_time}
    IN [cache |-> c \ old_entries, removed |-> Cardinality(old_entries)]

\* cleanup_old_cache_entries(max_age_hours): the cache it leaves and the
\* number of entries it removed
cleanup_old_cache_entries(c, t, max_age_hours) ==
    LET cutoff_time == t - max_age_hours * 3600
        old_entries == {e \in c : e.created_at < cutoff_time}
    IN [cache |-> c \ old_entries, removed |-> Cardinality(old_entries)]

\* one call of a hook: it raises when the pair is in raising
HookCall(hook, p, raising) == [hook |-> hook, plugin |-> p, raised |-> <<p, hook>> \in raising]

\* a variant without the try/except around the hook: the first exception
\* leaves the loop
RECURSIVE HookLoopUnguarded(_, _, _)
HookLoopUnguarded(hook, raising, p) ==
    IF p > NumPlugins THEN [calls |-> <<>>, exc |-> FALSE]
    ELSE IF <<p, hook>> \in raising
    THEN [calls |-> <<HookCall(hook, p, raising)>>, exc |-> TRUE]
    ELSE LET rest == HookLoopUnguarded(hook, raising, p + 1)
         IN [calls |-> <<HookCall(hook, p, raising)>> \o rest.calls, exc |-> rest.exc]

\* for hook in hooks: try: await hook(...) except Exception: logger.warning;
\* the calls it made from plugin p on and whether an exception left it
RECURSIVE HookLoop(_, _, _)
HookLoop(hook, raising, p) ==
    IF p > NumPlugins THEN [calls |-> <<>>, exc |-> FALSE]
    ELSE LET rest == HookLoop(hook, raising, p + 1)
         IN [calls |-> <<HookCall(hook, p, raising)>> \o rest.calls, exc |-> rest.exc]

_execute_pre_capture_hooks(raising) == HookLoop("pre_capture", raising, 1)

_execute_post_capture_hooks(raising) == HookLoop("post_capture", raising, 1)

_execute_success_hooks(raising) == HookLoop("on_success", raising, 1)

_execute_failure_hooks(raising) == HookLoop("on_failure", raising, 1)

\* CaptureResult(success, screenshot_path, cache_hit, error_message)
CaptureResult(success, screenshot_path, cache_hit, error_message) ==
    [success |-> success, screenshot_path |-> screenshot_path,
     cache_hit |-> cache_hit, error_message |-> error_message]

\* what a call of capture_app_screenshot leaves: the exception that left it
\* or the result it returned, the cache, the files and the hook calls made
Outcome(raised, result, c, fs, calls) ==
    [raised |-> raised, result |-> result, cache |-> c, files |-> fs, calls |-> calls]

\* the except branch of capture_app_screenshot, after the calls made so far
ExceptBranch(c, fs, calls, raising) ==
    LET failure == _execute_failure_hooks(raising)
    IN IF failure.exc
       THEN Outcome(TRUE, None, c, fs, calls \o failure.calls)
       ELSE Outcome(FALSE, Some(CaptureResult(FALSE, None, FALSE, Some("Screenshot capture failed"))),
                    c, fs, calls \o failure.calls)

\* the post-capture and success hooks run on a result, inside the try block
\* or, for a cache hit, outside of it
AfterCapture(result, c, fs, calls, raising, inTry) ==
    LET post == _execute_post_capture_hooks(raising)
        success == _execute_success_hooks(raising)
    IN IF post.exc
       THEN IF inTry THEN ExceptBranch(c, fs, calls \o post.calls, raising)
            ELSE Outcome(TRUE, None, c, fs, calls \o post.calls)
       ELSE IF success.exc
       THEN IF inTry THEN ExceptBranch(c, fs, calls \o post.calls \o success.calls, raising)
            ELSE Outcome(TRUE, None, c, fs, calls \o post.calls \o success.calls)
       ELSE Outcome(FALSE, Some(result), c, fs, calls \o post.calls \o success.calls)

\* a variant that updates the cache before it verifies the file
TryBlock_caches_first(c, fs, t, content_hash, render, calls, raising) ==
    LET screenshot_path == PathOf(content_hash.context, t)
        written == IF render = "created" THEN fs \cup {screenshot_path} ELSE fs
    IN IF render = "raises"
       THEN ExceptBranch(c, fs, calls, raising)
       ELSE IF screenshot_path \notin written
       THEN Outcome(FALSE, Some(CaptureResult(FALSE, None, FALSE, Some("Screenshot file was not created"))),
                    _update_cache(c, content_hash, screenshot_path, t), written,
                    calls \o _execute_failure_hooks(raising).calls)
       ELSE AfterCapture(CaptureResult(TRUE, Some(screenshot_path), FALSE, None),
                         _update_cache(c, content_hash, screenshot_path, t),
                         written, calls, raising, TRUE)

\* the try block of capture_app_screenshot: render is what running the app and
\* save_screenshot do, "created" (the file is written), "not_created" (nothing
\* is written and nothing raises) or "raises"
TryBlock(c, fs, t, content_hash, render, calls, raising) ==
    LET screenshot_path == PathOf(content_hash.context, t)
        written == IF render = "created" THEN fs \cup {screenshot_path} ELSE fs
    IN IF render = "raises"
       THEN ExceptBranch(c, fs, calls, raising)
       ELSE IF screenshot_path \notin written
       THEN LET failure == _execute_failure_hooks(raising)
            IN IF failure.exc
               THEN ExceptBranch(c, written, calls \o failure.calls, raising)
               ELSE Outcome(FALSE, Some(CaptureResult(FALSE, None, FALSE, Some("Screenshot file was not created"))),
                            c, written, calls \o failure.calls)
       ELSE AfterCapture(CaptureResult(TRUE, Some(screenshot_path), FALSE, None),
                         _update_cache(c, content_hash, screenshot_path, t),
                         written, calls, raising, TRUE)

\* cache_entry.access_count += 1 on the entry a lookup returned
Accessed(c, entry) == (c \ {entry}) \cup {[entry EXCEPT !.access_count = @ + 1]}

\* capture_app_screenshot(app_context, context) at time t
capture_app_screenshot(c, fs, t, content_hash, render, raising) ==
    LET pre == _execute_pre_capture_hooks(raising)
        look == _get_cache_entry(c, fs, t, content_hash)
    IN IF pre.exc
       THEN Outcome(TRUE, None, c, fs, pre.calls)
       ELSE IF look.entry # None
       THEN AfterCapture(CaptureResult(TRUE, Some(look.entry[1].screenshot_path), TRUE, None),
                         Accessed(look.cache, look.entry[1]), fs, pre.calls, raising, FALSE)
       ELSE TryBlock(look.cache, fs, t, content_hash, render, pre.calls, raising)

\* the 16 characters of a content hash stand for
\* cache_data (no collision of the digest); metadata_summary is the text of
\* the sorted key names, and context is also what the capture names its file
\* with.  A variant that hashes the metadata with its values
_generate_content_hash_with_values(app_context, context) ==
    [app_id |-> app_context.app_id,
     context |-> context,
     state_hash |-> app_context.state_hash,
     metadata_summary |-> app_context.metadata]

\* _generate_content_hash(app_context, context)
_generate_content_hash(app_context, context) ==
    [app_id |-> app_context.app_id,
     context |-> context,
     state_hash |-> app_context.state_hash,
     metadata_summary |-> {item[1] : item \in app_context.metadata}]

\* a variant of the with-block that saves the screenshot whatever the
\* interactions did
run_test_always_saves(interaction_list, failing, save) ==
    [events |-> (IF failing = 0 THEN interaction_list ELSE SubSeq(interaction_list, 1, failing))
                \o <<"save_screenshot">>,
     render |-> save]

\* async with app.run_test() as pilot: _perform_interactions, then
\* save_screenshot.  The interaction at position failing raises (0: none
\* does); save is what save_screenshot does.  The events are the interactions
\* started and the call of save_screenshot, render is what the block did
run_test(interaction_list, failing, save) ==
    IF failing = 0
    THEN [events |-> interaction_list \o <<"save_screenshot">>, render |-> save]
    ELSE [events |-> SubSeq(interaction_list, 1, failing), render |-> "raises"]

\* what the app did during a capture: nothing when a pre-capture hook raised
\* or the cache was hit
EventsOf(pre_raised, hit, events) == IF pre_raised \/ hit THEN <<>> ELSE events

\* capture_app_screenshot(app_context, context, output_format, interactions)
\* at time t: what the call leaves and what the app did
capture_with_interactions(c, fs, t, app_context, context, interaction_list, failing, save, raising) ==
    [outcome |-> capture_app_screenshot(c, fs, t, _generate_content_hash(app_context, context),
                                        run_test(interaction_list, failing, save).render, raising),
     events |-> EventsOf(_execute_pre_capture_hooks(raising).exc,
                         _get_cache_entry(c, fs, t, _generate_content_hash(app_context, context)).entry # None,
                         run_test(interaction_list, failing, save).events)]

\* the app contexts: two with the same app, state and metadata keys whose
\* metadata values differ, one in another state, one with other keys
AppContexts ==
    {[app_id |-> "app_1", state_hash |-> 1, metadata |-> {<<"version", "1.0">>}],
     [app_id |-> "app_1", state_hash |-> 1, metadata |-> {<<"version", "2.0">>}],
     [app_id |-> "app_1", state_hash |-> 2, metadata |-> {<<"version", "1.0">>}],
     [app_id |-> "app_1", state_hash |-> 1, metadata |-> {<<"build", "1.0">>}]}

OutputFormats == {"svg", "png"}

\* the interaction lists handed to a capture
InteractionLists == {<<"press:a">>, <<"click:#b", "press:a">>}

\* the instants of the captures: the start, one TTL later and a second more
CaptureInstants == {0, 3600, 3601}

\* the instants the clock shows: the start, a second later, and the instants
\* around one TTL after them
Instants == {0, 1, 3600, 3601, 3602}

RenderOutcomes == {"created", "not_created", "raises"}

\* which hooks raise during one capture: none, one hook of the first plugin,
\* or all hooks of all plugins
RaisingInputs ==
    {{}} \cup {{<<1, h>>} : h \in HookNames} \cup {Plugins \X HookNames}

MaxAgeHours == {0, 1, 24}

----------------------------------------------------------------------------
(* comparison.py and utils.py: the similarity of two files                 *)

\* x - y of floats
fsub(x, y) ==
    LET den == Max(x.den, y.den)
        d == x.num * (den \div x.den) - y.num * (den \div y.den)
    IN IF d >= 0 THEN Round(d, den)
       ELSE LET r == Round(0 - d, den) IN Rat(0 - r.num, r.den)

\* min(1.0, max(0.0, x))
Clamp(x) ==
    IF RatLess(x, Rat(0, 1)) THEN Rat(0, 1) ELSE IF RatLess(Rat(1, 1), x) THEN Rat(1, 1) ELSE x

\* sum(xs) of a list of floats, added from the left
RECURSIVE fsum(_)
fsum(xs) == IF xs = <<>> THEN Rat(0, 1) ELSE fadd(fsum(SubSeq(xs, 1, Len(xs) - 1)), xs[Len(xs)])

\* a path and the file it names: whether the file exists, the suffix of the
\* path, the document in the file and which of the byte strings that spell
\* this document at this size the file holds
PathFile(exists, suffix, file, content) ==
    [exists |-> exists, suffix |-> suffix, file |-> file, content |-> content]

NoFile(suffix) == PathFile(FALSE, suffix, BrokenFile("missing"), 0)

\* the SHA256 digest of the bytes: equal for equal bytes only
calculate_file_hash(file_path) == <<file_path.file, file_path.content>>

\* open() or stat() of the file raises OSError
Unreadable(file_path) == file_path.file.state = "unreadable"

\* ET.parse raises ParseError
Unparsable(file_path) == file_path.file.state \in {"malformed", "undecodable"}

count_svg_elements(elems) ==
    [t \in {LocalName(elems[i].tag) : i \in DOMAIN elems} |->
        Cardinality({i \in DOMAIN elems : LocalName(elems[i].tag) = t})]

\* 1.0 - abs(n1 - n2) / max(n1, n2, 1) of two sizes or two counts
Closeness(n1, n2) ==
    LET diff == IF n1 >= n2 THEN n1 - n2 ELSE n2 - n1
    IN fsub(Rat(1, 1), Round(diff, Max(Max(n1, n2), 1)))

\* set(elements1.keys()) | set(elements2.keys())
AllElements(svg1, svg2) ==
    IF svg1.file.state = "ok" /\ svg2.file.state = "ok"
    THEN DOMAIN count_svg_elements(svg1.file.elems) \cup DOMAIN count_svg_elements(svg2.file.elems)
    ELSE {}

\* the orders in which a set can be iterated
Orders(S) ==
    {s \in [1..Cardinality(S) -> S] : \A i, j \in 1..Cardinality(S) : i # j => s[i] # s[j]}

\* calculate_svg_similarity(svg1, svg2), the loop iterating all_elements in
\* the given order
calculate_svg_similarity(svg1, svg2, order) ==
    IF Unparsable(svg1) \/ Unparsable(svg2)
    THEN Closeness(svg1.file.st_size, svg2.file.st_size)
    ELSE LET elements1 == count_svg_elements(svg1.file.elems)
             elements2 == count_svg_elements(svg2.file.elems)
             count1(element) == IF element \in DOMAIN elements1 THEN elements1[element] ELSE 0
             count2(element) == IF element \in DOMAIN elements2 THEN elements2[element] ELSE 0
             element_similarities ==
                 [i \in DOMAIN order |-> Closeness(count1(order[i]), count2(order[i]))]
         IN fdiv(fsum(element_similarities), Rat(Len(element_similarities), 1))

\* what a call gave: a float, or the exception it raised
Value(v) == [raised |-> "none", value |-> v]

OSError == [raised |-> "OSError", value |-> Rat(0, 1)]

\* a variant that weighs size and structure 0.4 each and the hash 0.2
calculate_file_similarity_light_hash(file1, file2, order) ==
    IF ~file1.exists \/ ~file2.exists THEN Value(Rat(0, 1))
    ELSE IF Unreadable(file1) \/ Unreadable(file2) THEN OSError
    ELSE LET size_similarity == Closeness(file1.file.st_size, file2.file.st_size)
             hash_similarity ==
                 IF calculate_file_hash(file1) = calculate_file_hash(file2) THEN Rat(1, 1) ELSE Rat(0, 1)
             structural_similarity ==
                 IF file1.suffix = ".svg" /\ file2.suffix = ".svg"
                 THEN calculate_svg_similarity(file1, file2, order)
                 ELSE Tenths(5)
             overall_similarity ==
                 fadd(fadd(fmul(Tenths(4), size_similarity), fmul(Tenths(2), hash_similarity)),
                      fmul(Tenths(4), structural_similarity))
         IN IF hash_similarity = Rat(1, 1) THEN Value(Rat(1, 1)) ELSE Value(Clamp(overall_similarity))

\* calculate_file_similarity(file1, file2)
calculate_file_similarity(file1, file2, order) ==
    IF ~file1.exists \/ ~file2.exists THEN Value(Rat(0, 1))
    ELSE IF Unreadable(file1) \/ Unreadable(file2) THEN OSError
    ELSE LET size_similarity == Closeness(file1.file.st_size, file2.file.st_size)
             hash_similarity ==
                 IF calculate_file_hash(file1) = calculate_file_hash(file2) THEN Rat(1, 1) ELSE Rat(0, 1)
             structural_similarity ==
                 IF file1.suffix = ".svg" /\ file2.suffix = ".svg"
                 THEN calculate_svg_similarity(file1, file2, order)
                 ELSE Tenths(5)
             overall_similarity ==
                 fadd(fadd(fmul(Tenths(3), size_similarity), fmul(Tenths(4), hash_similarity)),
                      fmul(Tenths(3), structural_similarity))
         IN IF hash_similarity = Rat(1, 1) THEN Value(Rat(1, 1)) ELSE Value(Clamp(overall_similarity))

\* n elements of one tag
Copies(tag, n) == [k \in 1..n |-> El(tag, <<>>)]

\* documents of a root, rects and texts
CountedDocs == {<<El(<<"s","v","g">>, <<>>)>> \o Copies(<<"r","e","c","t">>, r) \o Copies(<<"t","e","x","t">>, t) : r, t \in 0..MaxCount}

\* the files compared with each other: documents of two sizes, a second
\* spelling of one of them, the same bytes under another suffix, files that
\* do not parse, a file that cannot be read and a path that names no file
SimilarityPool ==
    {PathFile(TRUE, ".svg", SvgFile(AllAttrib, d, s), 1) : d \in CountedDocs, s \in {1000, 1500}}
    \cup {PathFile(TRUE, ".svg", SvgFile(AllAttrib, <<El(<<"s","v","g">>, <<>>)>>, 1000), 2),
          PathFile(TRUE, ".txt", SvgFile(AllAttrib, <<El(<<"s","v","g">>, <<>>)>>, 1000), 1),
          PathFile(TRUE, ".txt", SvgFile(AllAttrib, <<El(<<"s","v","g">>, <<>>)>> \o Copies(<<"r","e","c","t">>, 1), 1500), 1),
          PathFile(TRUE, ".svg", [BrokenFile("malformed") EXCEPT !.st_size = 1000], 1),
          PathFile(TRUE, ".svg", [BrokenFile("malformed") EXCEPT !.st_size = 0], 1),
          PathFile(TRUE, ".svg", [BrokenFile("undecodable") EXCEPT !.st_size = 1500], 1),
          PathFile(TRUE, ".svg", BrokenFile("unreadable"), 1),
          NoFile(".svg")}

----------------------------------------------------------------------------
(* comparison.py, utils.py and quality.py: the quality scorer              *)

size_min_expected == 2000

size_optimal_min == 10000

size_optimal_max == 500000

size_max_expected == 2000000

\* max(0.0, x) and min(1.0, x)
fmax0(x) == IF RatLess(x, Rat(0, 1)) THEN Rat(0, 1) ELSE x

fmin1(x) == IF RatLess(Rat(1, 1), x) THEN Rat(1, 1) ELSE x

normalize_file_size_score(file_size) ==
    IF file_size < size_min_expected THEN Rat(0, 1)
    ELSE IF file_size >= size_optimal_min /\ file_size <= size_optimal_max THEN Rat(1, 1)
    ELSE IF file_size < size_optimal_min
         THEN Round(file_size - size_min_expected, size_optimal_min - size_min_expected)
         ELSE LET decrease_ratio == Round(file_size - size_optimal_max, size_max_expected - size_optimal_max)
              IN fmax0(fsub(Rat(1, 1), decrease_ratio))

\* ET.parse(path) raises: no file, a file that cannot be read, or no XML
ParseRaises(file_path) == ~file_path.exists \/ Unreadable(file_path) \/ Unparsable(file_path)

\* root.findall(".//" + tag): the elements below the root with this very tag
findall(elems, tag) == SelectSeq(Tail(elems), LAMBDA el : el.tag = tag)

\* analyze_svg_complexity(svg_path)
analyze_svg_complexity(svg_path) ==
    IF ParseRaises(svg_path) THEN Tenths(5)
    ELSE LET elems == svg_path.file.elems
             total_elements == Len(elems)
             element_types == {LocalName(elems[i].tag) : i \in DOMAIN elems}
             total_text_length == TotalTextLength(findall(elems, <<"t","e","x","t">>))
             element_complexity == fmin1(Round(total_elements, 100))
             diversity_complexity == fmin1(Round(Cardinality(element_types), 10))
             text_complexity == fmin1(Round(total_text_length, 500))
         IN fadd(fadd(fmul(element_complexity, Tenths(5)), fmul(diversity_complexity, Tenths(3))),
                 fmul(text_complexity, Tenths(2)))

\* analyze_content_complexity(file_path)
analyze_content_complexity(file_path) ==
    IF file_path.suffix = ".svg" THEN analyze_svg_complexity(file_path)
    ELSE IF ~file_path.exists THEN Tenths(5)
    ELSE fmin1(Round(file_path.file.st_size, 50000))

\* the namespace of SVG, written {n} in the tags of the documents
SvgNamespace == <<"{","n","}">>

\* a variant that gives the neutral score for a document that does not parse
validate_svg_structure_neutral(svg_path) ==
    IF ParseRaises(svg_path) THEN Tenths(5)
    ELSE LET root == svg_path.file.elems[1]
             attrib == svg_path.file.root_attrib
             passed(check) == IF check THEN 1 ELSE 0
             passed_checks ==
                 passed(endswith(root.tag, <<"s","v","g">>)) + passed("viewBox" \in attrib)
                 + passed(Len(svg_path.file.elems) > 1)
                 + passed("xmlns" \in attrib \/ IsSubstring(SvgNamespace, root.tag))
         IN Round(passed_checks, 4)

\* validate_svg_structure(svg_path)
validate_svg_structure(svg_path) ==
    IF svg_path.exists /\ ~Unreadable(svg_path) /\ Unparsable(svg_path) THEN Rat(0, 1)
    ELSE IF ParseRaises(svg_path) THEN Tenths(5)
    ELSE LET root == svg_path.file.elems[1]
             attrib == svg_path.file.root_attrib
             passed(check) == IF check THEN 1 ELSE 0
             passed_checks ==
                 passed(endswith(root.tag, <<"s","v","g">>)) + passed("viewBox" \in attrib)
                 + passed(Len(svg_path.file.elems) > 1)
                 + passed("xmlns" \in attrib \/ IsSubstring(SvgNamespace, root.tag))
         IN Round(passed_checks, 4)

\* analyze_file_structure(file_path, format)
analyze_file_structure(file_path, format) ==
    IF format = "svg" THEN validate_svg_structure(file_path)
    ELSE IF file_path.exists /\ file_path.file.st_size > 0 THEN Rat(1, 1) ELSE Rat(0, 1)

\* analyze_svg_completeness(svg_path, file_size): ET.parse raises on a file
\* that does not parse, and on one that does, ElementTree raises SyntaxError
\* ("invalid predicate") on the path with local-name(), which it does not
\* support; either way the except branch returns 0.5
analyze_svg_completeness(svg_path, file_size) == Tenths(5)

\* analyze_content_completeness(file_path)
analyze_content_completeness(file_path) ==
    IF ~file_path.exists THEN Tenths(5)
    ELSE LET file_size == file_path.file.st_size
         IN IF file_path.suffix = ".svg" THEN analyze_svg_completeness(file_path, file_size)
            ELSE IF file_size < 1000 THEN Tenths(3)
            ELSE IF file_size > 10000 THEN Rat(1, 1)
            ELSE Round(file_size, 10000)

QualityMetrics(file_size_score, content_complexity_score, structure_score, completeness_score, overall_score) ==
    [file_size_score |-> file_size_score, content_complexity_score |-> content_complexity_score,
     structure_score |-> structure_score, completeness_score |-> completeness_score,
     overall_score |-> overall_score]

\* a variant that adds the four scores without weighing them
calculate_quality_metrics_unweighted(screenshot) ==
    IF screenshot.screenshot_path = None
    THEN QualityMetrics(Rat(0, 1), Rat(0, 1), Rat(0, 1), Rat(0, 1), Rat(0, 1))
    ELSE LET file_path == screenshot.screenshot_path[1]
             file_size_score == normalize_file_size_score(screenshot.file_size_bytes)
             content_complexity_score == analyze_content_complexity(file_path)
             structure_score == analyze_file_structure(file_path, screenshot.format)
             completeness_score == analyze_content_completeness(file_path)
         IN QualityMetrics(file_size_score, content_complexity_score, structure_score, completeness_score,
                           fadd(fadd(fadd(file_size_score, content_complexity_score), structure_score),
                                completeness_score))

\* calculate_quality_metrics(screenshot)
calculate_quality_metrics(screenshot) ==
    IF screenshot.screenshot_path = None
    THEN QualityMetrics(Rat(0, 1), Rat(0, 1), Rat(0, 1), Rat(0, 1), Rat(0, 1))
    ELSE LET file_path == screenshot.screenshot_path[1]
             file_size_score == normalize_file_size_score(screenshot.file_size_bytes)
             content_complexity_score == analyze_content_complexity(file_path)
             structure_score == analyze_file_structure(file_path, screenshot.format)
             completeness_score == analyze_content_completeness(file_path)
             overall_score ==
                 fadd(fadd(fadd(fmul(Tenths(2), file_size_score), fmul(Tenths(3), content_complexity_score)),
                           fmul(Tenths(3), structure_score)),
                      fmul(Tenths(2), completeness_score))
         IN QualityMetrics(file_size_score, content_complexity_score, structure_score, completeness_score,
                           overall_score)

----------------------------------------------------------------------------
(* validation.py: ExternalValidationSuite                                  *)

\* a directory entry: its name and the file
Entry(name, path) == [name |-> name, path |-> path]

\* list(directory.glob(prefix + "*")): the entries whose names start with the
\* prefix, in the order the directory lists them
glob(directory, prefix) == SelectSeq(directory, LAMBDA entry : startswith(entry.name, prefix))

\* d.update(other) of dicts
Update(d, other) == other @@ d

EmptyDict == [k \in {} |-> 0]

\* the dict after d[keys[i]] = values[i] for i = 1, 2, ...
RECURSIVE Assign(_, _, _)
Assign(d, keys, values) ==
    IF keys = <<>> THEN d
    ELSE Assign(Update(d, Head(keys) :> Head(values)), Tail(keys), Tail(values))

\* max(xs) and min(xs) of a list of floats
RECURSIVE fmax(_)
fmax(xs) ==
    IF Len(xs) = 1 THEN xs[1]
    ELSE LET m == fmax(Tail(xs)) IN IF RatLess(xs[1], m) THEN m ELSE xs[1]

RECURSIVE fmin(_)
fmin(xs) ==
    IF Len(xs) = 1 THEN xs[1]
    ELSE LET m == fmin(Tail(xs)) IN IF RatLess(m, xs[1]) THEN m ELSE xs[1]

ValidationResult(is_valid, confidence, validation_type, issues, metrics) ==
    [is_valid |-> is_valid, confidence |-> confidence, validation_type |-> validation_type,
     issues |-> issues, metrics |-> metrics]

Values(outcomes) == [i \in DOMAIN outcomes |-> outcomes[i].value]

\* the ValidationResult of the stage for the similarities it computed
BaselineResult(per_file, found, avg_similarity, max_similarity, similarity_threshold) ==
    ValidationResult(~RatLess(max_similarity, similarity_threshold), max_similarity, "human_baseline",
                     IF ~RatLess(max_similarity, similarity_threshold)
                     THEN <<>> ELSE <<"Low similarity to baselines">>,
                     Update(per_file,
                            <<"b","a","s","e","l","i","n","e","_","f","i","l","e","s","_","f","o","u","n","d">> :> found
                            @@ <<"a","v","e","r","a","g","e","_","s","i","m","i","l","a","r","i","t","y">> :> avg_similarity
                            @@ <<"m","a","x","_","s","i","m","i","l","a","r","i","t","y">> :> max_similarity
                            @@ <<"s","i","m","i","l","a","r","i","t","y","_","t","h","r","e","s","h","o","l","d">> :> similarity_threshold))

\* the stage from its loop on: the similarity of each baseline file, then
\* the average, the maximum and the result
CompareWith(baseline_files, outcomes, similarity_scores) ==
    IF \E i \in DOMAIN outcomes : outcomes[i].raised # "none" THEN OSError
    ELSE Value(BaselineResult(Assign(EmptyDict,
                                     [i \in DOMAIN baseline_files |->
                                         <<"s","i","m","i","l","a","r","i","t","y","_","t","o","_">> \o baseline_files[i].name],
                                     similarity_scores),
                              Len(baseline_files),
                              fdiv(fsum(similarity_scores), Rat(Len(similarity_scores), 1)),
                              fmax(similarity_scores),
                              Tenths(7)))

\* the stage once the baseline files are listed
CompareWithListed(baseline_files, outcomes) ==
    IF baseline_files = <<>>
    THEN Value(ValidationResult(TRUE, Tenths(3), "human_baseline",
                                <<"No human baseline found for comparison">>,
                                <<"b","a","s","e","l","i","n","e","_","f","i","l","e","s","_","f","o","u","n","d">> :> 0))
    ELSE CompareWith(baseline_files, outcomes, Values(outcomes))

\* a variant that takes the average of the similarities for the maximum
_compare_with_human_baselines_average(screenshot, baseline_directory, outcomes) ==
    IF screenshot.screenshot_path = None
    THEN Value(ValidationResult(FALSE, Rat(0, 1), "human_baseline", <<"Screenshot path is None">>, EmptyDict))
    ELSE IF glob(baseline_directory, screenshot.context \o <<"_","b","a","s","e","l","i","n","e","_">>) = <<>>
    THEN Value(ValidationResult(TRUE, Tenths(3), "human_baseline",
                                <<"No human baseline found for comparison">>,
                                <<"b","a","s","e","l","i","n","e","_","f","i","l","e","s","_","f","o","u","n","d">> :> 0))
    ELSE IF \E i \in DOMAIN outcomes : outcomes[i].raised # "none" THEN OSError
    ELSE Value(BaselineResult(EmptyDict, Len(outcomes),
                              fdiv(fsum(Values(outcomes)), Rat(Len(outcomes), 1)),
                              fdiv(fsum(Values(outcomes)), Rat(Len(outcomes), 1)),
                              Tenths(7)))

\* ExternalValidationSuite._compare_with_human_baselines(screenshot), where
\* outcomes[i] is what calculate_file_similarity(screenshot_path, baseline_file)
\* gives for the i-th baseline file
_compare_with_human_baselines(screenshot, baseline_directory, outcomes) ==
    IF screenshot.screenshot_path = None
    THEN Value(ValidationResult(FALSE, Rat(0, 1), "human_baseline", <<"Screenshot path is None">>, EmptyDict))
    ELSE CompareWithListed(glob(baseline_directory, screenshot.context \o <<"_","b","a","s","e","l","i","n","e","_">>), outcomes)

\* s.split(sep)
RECURSIVE split(_, _)
split(s, sep) ==
    IF ~Contains(s, sep) THEN <<s>>
    ELSE LET i == CHOOSE k \in 1..Len(s) : s[k] = sep /\ \A j \in 1..(k-1) : s[j] # sep
         IN <<SubSeq(s, 1, i - 1)>> \o split(SubSeq(s, i + 1, Len(s)), sep)

\* s.isdigit()
isdigit(s) == s # <<>> /\ \A i \in 1..Len(s) : s[i] \in Digits

\* extract_platform_from_filename(filename): the loop from part i on
RECURSIVE PlatformFrom(_, _)
PlatformFrom(parts, i) ==
    IF i > Len(parts) THEN <<"u","n","k","n","o","w","n">>
    ELSE IF parts[i] = <<"p","l","a","t","f","o","r","m">> /\ i + 2 <= Len(parts) /\ isdigit(split(parts[i + 2], ".")[1])
         THEN split(parts[i + 1], ".")[1]
         ELSE PlatformFrom(parts, i + 1)

extract_platform_from_filename(filename) == PlatformFrom(split(filename, "_"), 1)

\* x ** 2
fsquare(x) == Round(x.num * x.num, x.den * x.den)

\* the analysis of analyze_platform_consistency from its mean on
ConsistencyOf(similarities, mean_similarity, variance, min_similarity) ==
    [variance |-> variance,
     consistency_score |-> fmul(fsub(Rat(1, 1), variance), min_similarity),
     min_similarity |-> min_similarity,
     mean_similarity |-> mean_similarity]

\* variance = sum((s - mean_similarity) ** 2 for s in similarities) / len(similarities)
VarianceAround(similarities, mean_similarity) ==
    fdiv(fsum([i \in DOMAIN similarities |-> fsquare(fsub(similarities[i], mean_similarity))]),
         Rat(Len(similarities), 1))

ConsistencyAround(similarities, mean_similarity) ==
    ConsistencyOf(similarities, mean_similarity, VarianceAround(similarities, mean_similarity),
                  fmin(similarities))

ConsistencyAroundMean(similarities, mean_similarity) ==
    ConsistencyOf(similarities, mean_similarity, VarianceAround(similarities, mean_similarity),
                  mean_similarity)

\* a variant that takes the mean of the similarities for their minimum
analyze_platform_consistency_mean(similarities) ==
    IF similarities = <<>>
    THEN [variance |-> Rat(1, 1), consistency_score |-> Rat(0, 1), min_similarity |-> Rat(0, 1)]
    ELSE ConsistencyAroundMean(similarities, fdiv(fsum(similarities), Rat(Len(similarities), 1)))

\* analyze_platform_consistency(similarities)
analyze_platform_consistency(similarities) ==
    IF similarities = <<>>
    THEN [variance |-> Rat(1, 1), consistency_score |-> Rat(0, 1), min_similarity |-> Rat(0, 1)]
    ELSE ConsistencyAround(similarities, fdiv(fsum(similarities), Rat(Len(similarities), 1)))

\* the ValidationResult of the stage for the analysis of the similarities
PlatformResult(per_platform, platform_names, consistency_analysis, consistency_threshold) ==
    ValidationResult(/\ RatLess(consistency_analysis.variance, Tenths(3))
                     /\ RatLess(consistency_threshold, consistency_analysis.min_similarity),
                     consistency_analysis.consistency_score, "platform_consistency",
                     IF /\ RatLess(consistency_analysis.variance, Tenths(3))
                        /\ RatLess(consistency_threshold, consistency_analysis.min_similarity)
                     THEN <<>> ELSE <<"Platform inconsistency detected">>,
                     Update(per_platform,
                            <<"p","l","a","t","f","o","r","m","_","c","o","u","n","t">> :> Len(platform_names)
                            @@ <<"c","o","n","s","i","s","t","e","n","c","y","_","v","a","r","i","a","n","c","e">> :> consistency_analysis.variance
                            @@ <<"c","o","n","s","i","s","t","e","n","c","y","_","s","c","o","r","e">> :> consistency_analysis.consistency_score
                            @@ <<"p","l","a","t","f","o","r","m","_","n","a","m","e","s">> :> platform_names))

\* a variant with a consistency threshold of 0.5
ConsistencyWith_lenient(platform_names, outcomes, platform_similarities) ==
    IF \E i \in DOMAIN outcomes : outcomes[i].raised # "none" THEN OSError
    ELSE Value(PlatformResult(Assign(EmptyDict,
                                     [i \in DOMAIN platform_names |-> <<"s","i","m","i","l","a","r","i","t","y","_","t","o","_">> \o platform_names[i]],
                                     platform_similarities),
                              platform_names,
                              analyze_platform_consistency(platform_similarities),
                              Tenths(5)))

\* the stage from its loop on: the platform and the similarity of each
\* reference file, then the analysis and the result
ConsistencyWith(platform_names, outcomes, platform_similarities) ==
    IF \E i \in DOMAIN outcomes : outcomes[i].raised # "none" THEN OSError
    ELSE Value(PlatformResult(Assign(EmptyDict,
                                     [i \in DOMAIN platform_names |-> <<"s","i","m","i","l","a","r","i","t","y","_","t","o","_">> \o platform_names[i]],
                                     platform_similarities),
                              platform_names,
                              analyze_platform_consistency(platform_similarities),
                              Tenths(6)))

\* the stage once the reference files are listed
ConsistencyWithListed(platform_refs, outcomes) ==
    IF Len(platform_refs) < 2
    THEN Value(ValidationResult(TRUE, Tenths(4), "platform_consistency",
                                <<"Insufficient platform references for consistency check">>,
                                <<"p","l","a","t","f","o","r","m","_","r","e","f","e","r","e","n","c","e","s">> :> Len(platform_refs)))
    ELSE ConsistencyWith([i \in DOMAIN platform_refs |-> extract_platform_from_filename(platform_refs[i].name)],
                         outcomes, Values(outcomes))

\* ExternalValidationSuite._validate_platform_consistency(screenshot), where
\* outcomes[i] is what calculate_file_similarity(screenshot_path, ref_file)
\* gives for the i-th reference file
_validate_platform_consistency(screenshot, platform_reference_directory, outcomes) ==
    IF screenshot.screenshot_path = None
    THEN Value(ValidationResult(FALSE, Rat(0, 1), "platform_consistency", <<"Screenshot path is None">>, EmptyDict))
    ELSE ConsistencyWithListed(glob(platform_reference_directory, screenshot.context \o <<"_","p","l","a","t","f","o","r","m","_">>),
                               outcomes)

\* ExternalValidationSuite.quality_thresholds, the defaults
quality_thresholds ==
    [file_size_min |-> Tenths(3), content_complexity_min |-> Tenths(4), structure_min |-> Tenths(5),
     completeness_min |-> Tenths(6), overall_min |-> Tenths(5)]

\* the ValidationResult of the stage for the issues of the failed checks
QualityResult(quality_metrics, issues) ==
    ValidationResult(issues = <<>>, quality_metrics.overall_score, "quality_assessment", issues,
                     Update(<<"f","i","l","e","_","s","i","z","e","_","s","c","o","r","e">> :> quality_metrics.file_size_score
                            @@ <<"c","o","n","t","e","n","t","_","c","o","m","p","l","e","x","i","t","y","_","s","c","o","r","e">> :> quality_metrics.content_complexity_score
                            @@ <<"s","t","r","u","c","t","u","r","e","_","s","c","o","r","e">> :> quality_metrics.structure_score
                            @@ <<"c","o","m","p","l","e","t","e","n","e","s","s","_","s","c","o","r","e">> :> quality_metrics.completeness_score
                            @@ <<"o","v","e","r","a","l","l","_","s","c","o","r","e">> :> quality_metrics.overall_score,
                            <<"t","h","r","e","s","h","o","l","d","s","_","u","s","e","d">> :> quality_thresholds
                            @@ <<"t","h","r","e","s","h","o","l","d","_","f","a","i","l","u","r","e","s">> :> Len(issues)))

\* the names of the checks whose score is below its threshold
FailedChecks(threshold_checks) ==
    LET failed == SelectSeq(threshold_checks, LAMBDA check : RatLess(check[2], check[3]))
    IN [i \in DOMAIN failed |-> failed[i][1]]

\* the stage from its threshold checks on
AssessQuality(quality_metrics) ==
    QualityResult(quality_metrics,
                  FailedChecks(<< <<"file_size", quality_metrics.file_size_score,
                                    quality_thresholds.file_size_min>>,
                                  <<"content_complexity", quality_metrics.content_complexity_score,
                                    quality_thresholds.content_complexity_min>>,
                                  <<"structure", quality_metrics.structure_score,
                                    quality_thresholds.structure_min>>,
                                  <<"completeness", quality_metrics.completeness_score,
                                    quality_thresholds.completeness_min>>,
                                  <<"overall", quality_metrics.overall_score,
                                    quality_thresholds.overall_min>> >>))

\* ExternalValidationSuite._assess_screenshot_quality_algorithmic(screenshot)
_assess_screenshot_quality_algorithmic(screenshot) ==
    IF screenshot.screenshot_path = None \/ ~screenshot.screenshot_path[1].exists
    THEN ValidationResult(FALSE, Rat(0, 1), "quality_assessment", <<"Screenshot file does not exist">>, EmptyDict)
    ELSE AssessQuality(calculate_quality_metrics(screenshot))

\* the except branch of validate_against_references
ValidationSystemError(error_type) ==
    ValidationResult(FALSE, Rat(0, 1), "external_reference", <<"Validation system error">>,
                     <<"e","r","r","o","r","_","t","y","p","e">> :> error_type)

\* the ValidationResult of validate_against_references for its list
\* validations of (name, ValidationResult) pairs
Aggregated(validations, overall_confidence, overall_valid) ==
    ValidationResult(overall_valid, overall_confidence, "multi_point_external",
                     validations[1][2].issues \o validations[2][2].issues \o validations[3][2].issues,
                     Update(Update(validations[1][2].metrics, validations[2][2].metrics),
                            validations[3][2].metrics)
                     @@ <<"v","a","l","i","d","a","t","i","o","n","_","b","r","e","a","k","d","o","w","n">> :>
                            [i \in DOMAIN validations |-> <<validations[i][1], validations[i][2].confidence>>]
                     @@ <<"i","n","d","i","v","i","d","u","a","l","_","r","e","s","u","l","t","s">> :>
                            [i \in DOMAIN validations |-> <<validations[i][1], validations[i][2].is_valid>>])

\* a variant whose confidence is that of the first stage
AggregateFirstStage(validations) ==
    Aggregated(validations, validations[1][2].confidence,
               \A i \in DOMAIN validations : validations[i][2].is_valid)

\* overall_confidence and overall_valid of the list validations, and the
\* result made of them
Aggregate(validations) ==
    Aggregated(validations,
               fdiv(fsum([i \in DOMAIN validations |-> validations[i][2].confidence]),
                    Rat(Len(validations), 1)),
               \A i \in DOMAIN validations : validations[i][2].is_valid)

\* the try block of validate_against_references from the results of its
\* stages: the result, and the list validations as it stood at the return
Validations(baseline_validation, platform_validation, quality_validation) ==
    IF baseline_validation.raised # "none"
    THEN [result |-> ValidationSystemError(baseline_validation.raised), validations |-> <<>>]
    ELSE IF platform_validation.raised # "none"
    THEN [result |-> ValidationSystemError(platform_validation.raised),
          validations |-> << <<"human_baseline", baseline_validation.value>> >>]
    ELSE [result |-> Aggregate(<< <<"human_baseline", baseline_validation.value>>,
                                  <<"platform_consistency", platform_validation.value>>,
                                  <<"quality_assessment", quality_validation>> >>),
          validations |-> << <<"human_baseline", baseline_validation.value>>,
                             <<"platform_consistency", platform_validation.value>>,
                             <<"quality_assessment", quality_validation>> >>]

\* ExternalValidationSuite.validate_against_references(screenshot): the result
\* and the list validations as it stood when the method returned
validate_against_references(screenshot, baseline_directory, platform_reference_directory, baseline_outcomes, platform_outcomes) ==
    IF ~screenshot.success \/ screenshot.screenshot_path = None
    THEN [result |-> ValidationResult(FALSE, Rat(0, 1), "external_reference",
                                      <<"Screenshot capture failed - cannot validate">>, EmptyDict),
          validations |-> <<>>]
    ELSE Validations(_compare_with_human_baselines(screenshot, baseline_directory, baseline_outcomes),
                     _validate_platform_consistency(screenshot, platform_reference_directory, platform_outcomes),
                     _assess_screenshot_quality_algorithmic(screenshot))

\* the documents of the suite's inputs: the captured one, and one of other
\* element counts
ShotDoc == <<El(<<"s","v","g">>, <<>>)>> \o Copies(<<"r","e","c","t">>, 1) \o Copies(<<"t","e","x","t">>, 2)

OtherDoc == <<El(<<"s","v","g">>, <<>>)>> \o Copies(<<"r","e","c","t">>, 3) \o Copies(<<"t","e","x","t">>, 3)

ShotFile == PathFile(TRUE, ".svg", SvgFile(AllAttrib, ShotDoc, 1000), 1)

RasterFile == PathFile(TRUE, ".png", [BrokenFile("malformed") EXCEPT !.st_size = 20000], 1)

\* the CaptureResults validated: a vector and a raster capture, a capture whose
\* file is gone, captures without a path and a failed capture that has one
ShotPool ==
    { [success |-> TRUE, screenshot_path |-> Some(ShotFile), format |-> "svg",
       file_size_bytes |-> 1000, context |-> <<"m","a","i","n">>],
      [success |-> TRUE, screenshot_path |-> Some(RasterFile), format |-> "png",
       file_size_bytes |-> 20000, context |-> <<"m","a","i","n">>],
      [success |-> TRUE, screenshot_path |-> Some(NoFile(".svg")), format |-> "svg",
       file_size_bytes |-> 1000, context |-> <<"m","a","i","n">>],
      [success |-> TRUE, screenshot_path |-> None, format |-> "svg",
       file_size_bytes |-> 0, context |-> <<"m","a","i","n">>],
      [success |-> FALSE, screenshot_path |-> None, format |-> "svg",
       file_size_bytes |-> 0, context |-> <<"m","a","i","n">>],
      [success |-> FALSE, screenshot_path |-> Some(ShotFile), format |-> "svg",
       file_size_bytes |-> 1000, context |-> <<"m","a","i","n">>] }

\* the reference files: the bytes of the vector capture, another spelling of
\* its document at the same size, another document and a file that cannot be
\* read
RefFiles ==
    { ShotFile,
      PathFile(TRUE, ".svg", SvgFile(AllAttrib, ShotDoc, 1000), 2),
      PathFile(TRUE, ".svg", SvgFile(AllAttrib, OtherDoc, 1500), 1),
      PathFile(TRUE, ".svg", BrokenFile("unreadable"), 1) }

BaselineNames == { <<"m","a","i","n","_","b","a","s","e","l","i","n","e","_","1",".","s","v","g">>, <<"m","a","i","n","_","b","a","s","e","l","i","n","e","_","2",".","s","v","g">>, <<"o","t","h","e","r","_","b","a","s","e","l","i","n","e","_","1",".","s","v","g">> }

PlatformNames == { <<"m","a","i","n","_","p","l","a","t","f","o","r","m","_","l","i","n","u","x","_","1",".","s","v","g">>, <<"m","a","i","n","_","p","l","a","t","f","o","r","m","_","d","a","r","w","i","n","_","2",".","s","v","g">>, <<"m","a","i","n","_","p","l","a","t","f","o","r","m","_","w","i","n",".","s","v","g">> }

\* the directories with names of the given set, and those of at most n entries
RECURSIVE DirectoriesOf(_)
DirectoriesOf(names) ==
    IF names = {} THEN {{}}
    ELSE LET name == CHOOSE any \in names : TRUE
             rest == DirectoriesOf(names \ {name})
         IN rest \cup {d \cup {Entry(name, path)} : d \in rest, path \in RefFiles}

Directories(names, n) == {d \in DirectoriesOf(names) : Cardinality(d) <= n}

\* the baseline and the platform directories of at most n entries
BaselineDirectories == [n \in 0..MaxRefs |-> Directories(BaselineNames, n)]

PlatformDirectories == [n \in 0..MaxRefs |-> Directories(PlatformNames, n)]

\* a document that reaches every cap of the complexity score: 100 elements of
\* 10 tag names, 11 of them text elements of 50 characters
RichDoc ==
    LET tags == <<<<"t","e","x","t">>, <<"r","e","c","t">>, <<"c","i","r","c","l","e">>, <<"p","a","t","h">>, <<"g">>, <<"l","i","n","e">>, <<"d","e","f","s">>, <<"u","s","e">>, <<"t","s","p","a","n">>>>
    IN <<El(<<"s","v","g">>, <<>>)>>
       \o [k \in 1..99 |-> El(tags[((k - 1) % 9) + 1], IF k % 9 = 1 THEN [c \in 1..50 |-> "a"] ELSE <<>>)]

\* the documents scored: a bare root, the captured document, one with
\* namespaced tags and text, and the rich one
QualityDocs ==
    { <<El(<<"s","v","g">>, <<>>)>>,
      ShotDoc,
      <<El(<<"{","n","}","s","v","g">>, <<>>), El(<<"{","n","}","t","e","x","t">>, <<"h","e","l","l","o">>), El(<<"t","e","x","t">>, <<"h","e","l","l","o"," ","w","o","r","l","d">>), El(<<"{","n","}","g">>, <<>>)>>,
      RichDoc }

\* the artifact files scored: documents with and without the attributes of
\* the root, files that do not parse or cannot be read under either suffix,
\* raster files of several sizes and paths that name no file
QualityFiles ==
    {PathFile(TRUE, ".svg", SvgFile(attrib, doc, 3000), 1) : attrib \in {{}, AllAttrib}, doc \in QualityDocs}
    \cup {PathFile(TRUE, suffix, [BrokenFile(state) EXCEPT !.st_size = 3000], 1) :
             suffix \in {".svg", ".png"}, state \in {"malformed", "undecodable", "unreadable"}}
    \cup {PathFile(TRUE, ".png", [BrokenFile("malformed") EXCEPT !.st_size = size], 1) :
             size \in {0, 500, 6000, 20000, 60000}}
    \cup {NoFile(".svg"), NoFile(".png")}

\* the values of CaptureResult.file_size_bytes: around each corner of the
\* size score
QualitySizes == {0, 1999, 2000, 4000, 10000, 60000, 500000, 1250000, 2000000, 3000000}

\* the CaptureResults scored, one of them without a path
QualityPool ==
    {[success |-> TRUE, screenshot_path |-> Some(file), format |-> format,
      file_size_bytes |-> size, context |-> <<"m","a","i","n">>] :
         file \in QualityFiles, format \in {"svg", "png"}, size \in QualitySizes}
    \cup {[success |-> TRUE, screenshot_path |-> None, format |-> "svg",
           file_size_bytes |-> 0, context |-> <<"m","a","i","n">>]}

----------------------------------------------------------------------------
(* The validator called on one string and on a list                        *)

\* the items the generated lists are made of
SeqPool ==
    { <<"p","r","e","s","s",":","f","2">>, <<"f","2">>, <<"c","l","i","c","k",":">>, <<"c","l","i","c","k",":","#","b">>, <<"t","a","p",":","x">>, <<"w","a","i","t",":","-","1",".","0">>, <<"w","a","i","t",":","1",".","0">>, <<"t","y","p","e",":">> }

SeqInputs == UNION {[1..n -> SeqPool] : n \in 0..MaxSeqLen}

\* the lists handed to _perform_interactions are made of these: one per
\* branch, and strings the validator rejects
PilotPool ==
    { <<"p","r","e","s","s",":","f","2">>, <<"c","l","i","c","k",":","#","b">>, <<"h","o","v","e","r",":",".","m">>, <<"t","y","p","e",":","a","b">>, <<"w","a","i","t",":","1",".","0">>, <<"w","a","i","t",":","n","a","n">>,
      <<"f","2">>, <<"c","l","i","c","k",":">>, <<"t","a","p",":","x">>, <<"w","a","i","t",":","x">> }

PilotInputs == UNION {[1..n -> PilotPool] : n \in 0..MaxPilotLen}

\* nothing handed to a component
ParseIdle ==
    /\ raw = <<>>
    /\ parsed = NotCalled
    /\ reparsed = NotCalled

SeqIdle ==
    /\ interactions = <<>>
    /\ vresult = NotCalled

PilotIdle ==
    /\ pList = <<>>
    /\ exec = ExecStart

DetIdle ==
    /\ capture = [success |-> FALSE, has_path |-> FALSE, format |-> "svg", file_size_bytes |-> 0,
                  context |-> <<>>, file |-> BrokenFile("unreadable")]
    /\ enable_svg_analysis = TRUE
    /\ dresult = NotCalled
    /\ dstages = <<>>

ConfIdle ==
    /\ issueList = <<>>
    /\ dconfidence = NotCalled

EngineIdle ==
    /\ cache = {}
    /\ files = {}
    /\ clock = 0
    /\ ncalls = 0
    /\ lastCall = [op |-> "none"]

SimIdle ==
    /\ simPair = <<>>
    /\ simOut = NotCalled

ValIdle ==
    /\ shot = <<>>
    /\ baselineDir = {}
    /\ platformDir = {}
    /\ valOut = NotCalled

QualityIdle ==
    /\ qshot = <<>>
    /\ qOut = NotCalled

HashIdle ==
    /\ basic = <<>>
    /\ now = <<>>
    /\ hashes = <<>>

InitParse ==
    /\ raw \in RawInputs
    /\ parsed = NotCalled
    /\ reparsed = NotCalled
    /\ SeqIdle /\ PilotIdle /\ DetIdle /\ ConfIdle /\ EngineIdle /\ SimIdle /\ ValIdle /\ QualityIdle /\ HashIdle

InitSequence ==
    /\ interactions \in SeqInputs
    /\ vresult = NotCalled
    /\ ParseIdle /\ PilotIdle /\ DetIdle /\ ConfIdle /\ EngineIdle /\ SimIdle /\ ValIdle /\ QualityIdle /\ HashIdle

InitPilot ==
    /\ pList \in PilotInputs
    /\ exec = ExecStart
    /\ ParseIdle /\ SeqIdle /\ DetIdle /\ ConfIdle /\ EngineIdle /\ SimIdle /\ ValIdle /\ QualityIdle /\ HashIdle

InitDetector ==
    /\ capture \in CapturePool
    /\ enable_svg_analysis \in BOOLEAN
    /\ dresult = NotCalled
    /\ dstages = <<>>
    /\ ParseIdle /\ SeqIdle /\ PilotIdle /\ ConfIdle /\ EngineIdle /\ SimIdle /\ ValIdle /\ QualityIdle /\ HashIdle

InitConfidence ==
    /\ issueList \in IssueListInputs
    /\ dconfidence = NotCalled
    /\ ParseIdle /\ SeqIdle /\ PilotIdle /\ DetIdle /\ EngineIdle /\ SimIdle /\ ValIdle /\ QualityIdle /\ HashIdle

\* a ScreenshotCapture after construction: no cache entry, no file
InitEngine ==
    /\ EngineIdle
    /\ ParseIdle /\ SeqIdle /\ PilotIdle /\ DetIdle /\ ConfIdle /\ SimIdle /\ ValIdle /\ QualityIdle /\ HashIdle

InitSimilarity ==
    /\ simPair \in SimilarityPool \X SimilarityPool
    /\ simOut = NotCalled
    /\ ParseIdle /\ SeqIdle /\ PilotIdle /\ DetIdle /\ ConfIdle /\ EngineIdle /\ ValIdle /\ QualityIdle /\ HashIdle

\* an ExternalValidationSuite over two directories and a CaptureResult
InitValidation ==
    /\ shot \in ShotPool
    /\ \E nb \in 0..MaxRefs :
          /\ baselineDir \in BaselineDirectories[nb]
          /\ platformDir \in PlatformDirectories[MaxRefs - nb]
          /\ Cardinality(baselineDir) = nb
    /\ valOut = NotCalled
    /\ ParseIdle /\ SeqIdle /\ PilotIdle /\ DetIdle /\ ConfIdle /\ EngineIdle /\ SimIdle /\ QualityIdle /\ HashIdle

\* a CaptureResult handed to the quality scorer
InitQuality ==
    /\ qshot \in QualityPool
    /\ qOut = NotCalled
    /\ ParseIdle /\ SeqIdle /\ PilotIdle /\ DetIdle /\ ConfIdle /\ EngineIdle /\ SimIdle /\ ValIdle /\ HashIdle

\* a BasicAppContext after construction, at some instant
InitHash ==
    /\ basic \in BasicAppContexts
    /\ now \in DateTimes
    /\ hashes = <<>>
    /\ ParseIdle /\ SeqIdle /\ PilotIdle /\ DetIdle /\ ConfIdle /\ EngineIdle /\ SimIdle /\ ValIdle /\ QualityIdle

\* one string handed to parse_interaction and, as a list of one, to
\* _perform_interactions
InitAgree ==
    /\ raw \in RawInputs
    /\ parsed = NotCalled
    /\ reparsed = NotCalled
    /\ pList = <<raw>>
    /\ exec = ExecStart
    /\ SeqIdle /\ DetIdle /\ ConfIdle /\ EngineIdle /\ SimIdle /\ ValIdle /\ QualityIdle /\ HashIdle

Init ==
    \/ InitHash \/ InitAgree
    \/ InitParse \/ InitSequence \/ InitPilot \/ InitDetector \/ InitConfidence \/ InitEngine
    \/ InitSimilarity \/ InitValidation \/ InitQuality

\* InteractionValidator.parse_interaction(raw)
ParseInteraction ==
    /\ ~parsed.called
    /\ parsed' = [called |-> TRUE, out |-> parse_interaction(raw)]
    /\ UNCHANGED <<raw, reparsed, exceptParse>>

\* parse_interaction called again on the string the first call returned
ParseReturned ==
    /\ parsed.called
    /\ parsed.out.ok
    /\ ~reparsed.called
    /\ reparsed' = [called |-> TRUE, out |-> parse_interaction(parsed.out.value)]
    /\ UNCHANGED <<raw, parsed, exceptParse>>

\* InteractionValidator.validate_sequence(interactions)
ValidateSequence ==
    /\ ~vresult.called
    /\ vresult' = validate_sequence(interactions)
    /\ UNCHANGED <<interactions, exceptSeq>>

\* _perform_interactions runs to its next await, or returns
Loop ==
    /\ exec.pc = "loop"
    /\ exec' = LoopStep(exec, pList)
    /\ UNCHANGED <<pList, exceptPilot>>

\* the awaited pilot.press, pilot.click or pilot.hover completes
PilotCallReturns ==
    /\ exec.pc = "inPilot"
    /\ exec' = PilotReturns(exec, pList)
    /\ UNCHANGED <<pList, exceptPilot>>

\* the awaited pilot call raises (a selector that matches nothing, ...)
PilotCallRaises ==
    /\ exec.pc = "inPilot"
    /\ exec' = PilotFails(exec)
    /\ UNCHANGED <<pList, exceptPilot>>

\* asyncio.sleep(0.05) after a typed character is over
TypeSleepElapses ==
    /\ exec.pc = "inTypeSleep"
    /\ exec' = TypeSleepOver(exec, pList)
    /\ UNCHANGED <<pList, exceptPilot>>

\* asyncio.sleep(duration) of a wait: is over; a NaN duration never elapses
WaitElapses ==
    /\ exec.pc = "inWait"
    /\ ~float(Argument(pList[exec.idx])).nan
    /\ exec' = WaitOver(exec, pList)
    /\ UNCHANGED <<pList, exceptPilot>>

\* asyncio.sleep(nan): the pause is never over on interpreters before 3.13
\* (no step), and raises ValueError on later ones
WaitRaisesOnNaN ==
    /\ exec.pc = "inWait"
    /\ float(Argument(pList[exec.idx])).nan
    /\ exec' = Propagate(exec, "ValueError: Invalid delay: NaN not supported")
    /\ UNCHANGED <<pList, exceptPilot>>

\* asyncio.sleep(0.1) after an interaction is over
SettleElapses ==
    /\ exec.pc = "inSettle"
    /\ exec' = SettleOver(exec)
    /\ UNCHANGED <<pList, exceptPilot>>

\* ProactiveErrorDetector.detect_common_issues(capture)
DetectCommonIssues ==
    /\ ~dresult.called
    /\ dresult' = detect_common_issues(capture, enable_svg_analysis).result
    /\ dstages' = detect_common_issues(capture, enable_svg_analysis).stages
    /\ UNCHANGED <<capture, enable_svg_analysis, exceptDet>>

\* ProactiveErrorDetector._calculate_detection_confidence(issueList)
CalculateDetectionConfidence ==
    /\ ~dconfidence.called
    /\ dconfidence' = [called |-> TRUE, value |-> _calculate_detection_confidence(issueList)]
    /\ UNCHANGED <<issueList, exceptConf>>

\* ScreenshotCapture.capture_app_screenshot(app_context, context)
CaptureAppScreenshot ==
    /\ ncalls < MaxCalls
    /\ \E content_hash \in Keys, render \in RenderOutcomes, raising \in RaisingInputs :
          \E o \in {capture_app_screenshot(cache, files, clock, content_hash, render, raising)} :
             /\ cache' = o.cache
             /\ files' = o.files
             /\ lastCall' = [op |-> "capture", seq |-> ncalls + 1, content_hash |-> content_hash,
                         render |-> render, raising |-> raising,
                         raised |-> o.raised, result |-> o.result, calls |-> o.calls]
    /\ ncalls' = ncalls + 1
    /\ UNCHANGED <<clock, exceptEngine>>

\* ScreenshotCapture._get_cache_entry(content_hash)
GetCacheEntry ==
    /\ ncalls < MaxCalls
    /\ \E content_hash \in Keys :
          \E look \in {_get_cache_entry(cache, files, clock, content_hash)} :
             /\ cache' = look.cache
             /\ lastCall' = [op |-> "lookup", seq |-> ncalls + 1, content_hash |-> content_hash,
                         entry |-> look.entry]
    /\ ncalls' = ncalls + 1
    /\ UNCHANGED <<files, clock, exceptEngine>>

\* ScreenshotCapture.cleanup_old_cache_entries(max_age_hours)
CleanupOldCacheEntries ==
    /\ ncalls < MaxCalls
    /\ \E max_age_hours \in MaxAgeHours :
          \E clean \in {cleanup_old_cache_entries(cache, clock, max_age_hours)} :
             /\ cache' = clean.cache
             /\ lastCall' = [op |-> "cleanup", seq |-> ncalls + 1, max_age_hours |-> max_age_hours,
                         removed |-> clean.removed]
    /\ ncalls' = ncalls + 1
    /\ UNCHANGED <<files, clock, exceptEngine>>

\* ScreenshotCapture.capture_app_screenshot(app_context, context,
\* output_format, interactions); previous tells of the call before it
CaptureWithInteractions ==
    /\ ncalls < MaxCaptures
    /\ \E app_context \in AppContexts, output_format \in OutputFormats, interaction_list \in InteractionLists :
          \E failing \in 0..Len(interaction_list), save \in RenderOutcomes :
             /\ failing # 0 => save = "created"
             /\ \E o \in {capture_with_interactions(cache, files, clock, app_context, "main",
                                                     interaction_list, failing, save, {})} :
                   /\ cache' = o.outcome.cache
                   /\ files' = o.outcome.files
                   /\ lastCall' = [op |-> "capture_with", seq |-> ncalls + 1,
                                   app_context |-> app_context, output_format |-> output_format,
                                   interactions |-> interaction_list, failing |-> failing, save |-> save,
                                   content_hash |-> _generate_content_hash(app_context, "main"),
                                   raised |-> o.outcome.raised,
                                   result |-> o.outcome.result, calls |-> o.outcome.calls,
                                   events |-> o.events,
                                   previous |-> IF lastCall.op = "capture_with"
                                                THEN Some([app_context |-> lastCall.app_context,
                                                           interactions |-> lastCall.interactions,
                                                           events |-> lastCall.events,
                                                           success |-> lastCall.result[1].success])
                                                ELSE None]
    /\ ncalls' = ncalls + 1
    /\ UNCHANGED <<clock, exceptEngine>>

\* time passes
Tick ==
    /\ \E t \in Instants : t > clock /\ clock' = t
    /\ UNCHANGED <<cache, files, ncalls, lastCall, exceptEngine>>

\* time passes between two captures
TimePasses ==
    /\ \E t \in CaptureInstants : t > clock /\ clock' = t
    /\ UNCHANGED <<cache, files, ncalls, lastCall, exceptEngine>>

\* a screenshot file is removed from the disk
DeleteFile ==
    /\ \E f \in files : files' = files \ {f}
    /\ UNCHANGED <<cache, clock, ncalls, lastCall, exceptEngine>>

\* calculate_file_similarity(file1, file2), calculate_file_similarity(file2, file1)
\* and calculate_file_similarity(file1, file1); each call iterates its set of
\* tag names in an order of its own
CalculateFileSimilarity ==
    /\ ~simOut.called
    /\ \E orders \in {Orders(AllElements(simPair[1], simPair[2]))} :
          \E forward \in {calculate_file_similarity(simPair[1], simPair[2], o) : o \in orders},
             backward \in {calculate_file_similarity(simPair[2], simPair[1], o) : o \in orders},
             self \in {calculate_file_similarity(simPair[1], simPair[1], o) :
                          o \in Orders(AllElements(simPair[1], simPair[1]))} :
             simOut' = [called |-> TRUE, forward |-> forward, backward |-> backward, self |-> self]
    /\ UNCHANGED <<simPair, exceptSim>>

\* the path the suite compares: that of the CaptureResult, if it has one
PathOfShot(screenshot) ==
    IF screenshot.screenshot_path = None THEN NoFile("") ELSE screenshot.screenshot_path[1]

\* what calculate_file_similarity(file1, file2) can give for the comparisons
\* the suite can make: one outcome for each order of iterating the tag set
SuiteOutcomes ==
    [file1 \in {PathOfShot(screenshot) : screenshot \in ShotPool} |->
        [file2 \in RefFiles |->
            {calculate_file_similarity(file1, file2, o) : o \in Orders(AllElements(file1, file2))}]]

\* [calculate_file_similarity(screenshot_path, f) for f in refs]: the lists
\* of outcomes the calls can give
RECURSIVE Similarities(_, _)
Similarities(screenshot_path, refs) ==
    IF refs = <<>> THEN {<<>>}
    ELSE {<<outcome>> \o rest : outcome \in SuiteOutcomes[screenshot_path][Head(refs).path],
                                 rest \in Similarities(screenshot_path, Tail(refs))}

\* the orders in which a directory can be listed, as far as glob(prefix + "*")
\* tells them apart: the entries it yields in any order, the others after them
Listings(directory, prefix) ==
    LET yielded == {entry \in directory : startswith(entry.name, prefix)}
        others == CHOOSE rest \in Orders(directory \ yielded) : TRUE
    IN {listing \o others : listing \in Orders(yielded)}

ShotPath == PathOfShot(shot)

\* the similarity computed for each listed file, by the name of the file
ByName(refs, outcomes) == [name \in {refs[i].name : i \in DOMAIN refs} |->
                              outcomes[CHOOSE i \in DOMAIN refs : refs[i].name = name]]

\* ExternalValidationSuite.validate_against_references(screenshot): each glob
\* lists its directory in some order
ValidateAgainstReferences ==
    /\ ~valOut.called
    /\ \E baseline_listing \in Listings(baselineDir, shot.context \o <<"_","b","a","s","e","l","i","n","e","_">>),
          platform_listing \in Listings(platformDir, shot.context \o <<"_","p","l","a","t","f","o","r","m","_">>) :
          \E baseline_files \in {glob(baseline_listing, shot.context \o <<"_","b","a","s","e","l","i","n","e","_">>)},
             platform_refs \in {glob(platform_listing, shot.context \o <<"_","p","l","a","t","f","o","r","m","_">>)} :
             \E baseline_outcomes \in Similarities(ShotPath, baseline_files),
                platform_outcomes \in Similarities(ShotPath, platform_refs) :
                \E o \in {validate_against_references(shot, baseline_listing, platform_listing,
                                                       baseline_outcomes, platform_outcomes)} :
                   valOut' = [called |-> TRUE,
                              baseline_similarities |-> ByName(baseline_files, baseline_outcomes),
                              platform_similarities |-> ByName(platform_refs, platform_outcomes),
                              validations |-> o.validations, result |-> o.result]
    /\ UNCHANGED <<shot, baselineDir, platformDir, exceptVal>>

\* calculate_quality_metrics(screenshot)
CalculateQualityMetrics ==
    /\ ~qOut.called
    /\ qOut' = [called |-> TRUE, metrics |-> calculate_quality_metrics(qshot)]
    /\ UNCHANGED <<qshot, exceptQuality>>

\* BasicAppContext.get_state_hash()
GetStateHash ==
    /\ basic # <<>>
    /\ Len(hashes) < MaxHashCalls
    /\ hashes' = Append(hashes, [at |-> now, value |-> get_state_hash(basic, now)])
    /\ UNCHANGED <<basic, now, exceptHash>>

\* time passes between two calls
ClockAdvances ==
    /\ basic # <<>>
    /\ \E dt \in DateTimes : Microseconds(dt) > Microseconds(now) /\ now' = dt
    /\ UNCHANGED <<basic, hashes, exceptHash>>

NextHash == GetStateHash \/ ClockAdvances

NextParse == ParseInteraction \/ ParseReturned

NextSequence == ValidateSequence

NextPilot ==
    \/ Loop
    \/ PilotCallReturns
    \/ PilotCallRaises
    \/ TypeSleepElapses
    \/ WaitElapses
    \/ WaitRaisesOnNaN
    \/ SettleElapses

NextDetector == DetectCommonIssues

NextConfidence == CalculateDetectionConfidence

NextEngine == CaptureAppScreenshot \/ GetCacheEntry \/ CleanupOldCacheEntries \/ Tick \/ DeleteFile

NextCapture == CaptureWithInteractions \/ TimePasses \/ DeleteFile

NextSimilarity == CalculateFileSimilarity

NextValidation == ValidateAgainstReferences

NextQuality == CalculateQualityMetrics

Next ==
    \/ NextHash
    \/ NextParse \/ NextSequence \/ NextPilot \/ NextDetector \/ NextConfidence \/ NextEngine
    \/ NextCapture
    \/ NextSimilarity \/ NextValidation \/ NextQuality

NextAgree == ParseInteraction \/ NextPilot

SpecAgree == InitAgree /\ [][NextAgree]_vars

SpecHash == InitHash /\ [][NextHash]_vars

SpecParse == InitParse /\ [][NextParse]_vars

SpecSequence == InitSequence /\ [][NextSequence]_vars

SpecPilot == InitPilot /\ [][NextPilot]_vars

SpecDetector == InitDetector /\ [][NextDetector]_vars

SpecConfidence == InitConfidence /\ [][NextConfidence]_vars

SpecEngine == InitEngine /\ [][NextEngine]_vars

SpecCapture == InitEngine /\ [][NextCapture]_vars

SpecSimilarity == InitSimilarity /\ [][NextSimilarity]_vars

SpecValidation == InitValidation /\ [][NextValidation]_vars

SpecQuality == InitQuality /\ [][NextQuality]_vars

Spec == Init /\ [][Next]_vars

----------------------------------------------------------------------------
(* Properties of the validator                                             *)

\* the failing positions (1-based) of a list, each item parsed on its own
FailingPositions(items) == {i \in 1..Len(items) : ~parse_interaction(items[i]).ok}

\* the text embeds raw in one of the forms press:<raw>, click:#<raw>,
\* click:.<raw>, click:<raw>
EmbedsRaw(text, r) ==
    \/ IsSubstring(<<"p","r","e","s","s",":">> \o r, text)
    \/ IsSubstring(<<"c","l","i","c","k",":","#">> \o r, text)
    \/ IsSubstring(<<"c","l","i","c","k",":",".">> \o r, text)
    \/ IsSubstring(<<"c","l","i","c","k",":">> \o r, text)

IsMissingSeparatorError(out) ==
    ~out.ok /\ IsSubstring(<<"m","i","s","s","i","n","g"," ","r","e","q","u","i","r","e","d"," ","'",":","'"," ","s","e","p","a","r","a","t","o","r">>, out.message)

\* C2: validate_sequence scans every item and returns exactly one error
\* record per item that fails parse_interaction on its own, in input order,
\* each with the item's 0-based index and its raw text.
C2_OneErrorPerFailingItem ==
    vresult.called =>
        /\ Len(vresult.errors) = Cardinality(FailingPositions(interactions))
        /\ {e.index + 1 : e \in {vresult.errors[k] : k \in 1..Len(vresult.errors)}}
               = FailingPositions(interactions)
        /\ \A k \in 1..Len(vresult.errors) :
               /\ vresult.errors[k].interaction = interactions[vresult.errors[k].index + 1]
               /\ k > 1 => vresult.errors[k - 1].index < vresult.errors[k].index

\* a three-item list whose first and last items fail and whose middle one passes
C2_Witness ==
    /\ vresult.called
    /\ Len(interactions) = 3
    /\ FailingPositions(interactions) = {1, 3}
    /\ Len(vresult.errors) = 2
    /\ vresult.errors[2].index = 2

C4_Accepts(kind, target) ==
    CASE kind \in {<<"p","r","e","s","s">>, <<"c","l","i","c","k">>, <<"h","o","v","e","r">>} -> strip(target) # <<>>
      [] kind = <<"w","a","i","t">> -> float(target).ok /\ ~float(target).nan /\ ~float(target).negative
      [] kind = <<"t","y","p","e">> -> TRUE
      [] OTHER -> FALSE

\* C4: a string with a ':' is accepted exactly when the text after the first
\* ':' passes the test of its kind (non-blank for press, click and hover; a
\* number >= 0 for wait; anything for type; never for another kind); an
\* accepted string is returned unchanged and parsing the returned string
\* gives the same result again.
C4_AcceptanceByKindAndIdempotent ==
    /\ (parsed.called /\ Contains(raw, ":")) =>
           /\ parsed.out.ok <=> C4_Accepts(SplitHead(raw), SplitTail(raw))
           /\ parsed.out.ok => parsed.out.value = raw
    /\ reparsed.called => reparsed.out = parsed.out

\* C5: is_valid holds exactly when errors is empty, validated_interactions is
\* the subsequence of the inputs that pass parse_interaction on their own, and
\* the two lists together account for every input.
C5_ValidEqualsNoErrors ==
    vresult.called =>
        /\ vresult.is_valid <=> (vresult.errors = <<>>)
        /\ vresult.validated_interactions
               = SelectSeq(interactions, LAMBDA x : parse_interaction(x).ok)
        /\ Len(vresult.validated_interactions) + Len(vresult.errors) = Len(interactions)

\* a result that is not valid and still holds validated items
C5_Witness ==
    /\ vresult.called
    /\ ~vresult.is_valid
    /\ Len(vresult.validated_interactions) = 1
    /\ Len(vresult.errors) = 2
    /\ vresult.errors[1].index = 0


----------------------------------------------------------------------------
(* Properties of the executor                                              *)

Malformed(items) == \E i \in 1..Len(items) : ~parse_interaction(items[i]).ok

CallPositions(trace) == {p \in 1..Len(trace) : trace[p].ev = "call"}

\* the pilot calls a list asks for, in list order
RECURSIVE ExpectedCalls(_)
ExpectedCalls(items) ==
    IF items = <<>> THEN <<>>
    ELSE LET b == Branch(Head(items))
             arg == Argument(Head(items))
             own == CASE b \in {"press", "click", "hover"} -> << <<b, arg>> >>
                      [] b = "type" -> [k \in 1..Len(arg) |-> <<"press", <<arg[k]>> >>]
                      [] OTHER -> <<>>
         IN own \o ExpectedCalls(Tail(items))

\* the pilot calls of a trace, in the order they were started
RECURSIVE IssuedCalls(_)
IssuedCalls(trace) ==
    IF trace = <<>> THEN <<>>
    ELSE IF Head(trace).ev = "call"
         THEN << <<Head(trace).op, Head(trace).arg>> >> \o IssuedCalls(Tail(trace))
         ELSE IssuedCalls(Tail(trace))

IsPrefix(a, b) == Len(a) <= Len(b) /\ SubSeq(b, 1, Len(a)) = a

\* C1: a list with a malformed element is rejected as a whole before anything
\* is executed: no pilot call is ever issued for it, and the coroutine ends by
\* raising the ValueError "Invalid interaction format".
C1_MalformedListNeverExecuted ==
    Malformed(pList) =>
        /\ CallPositions(exec.trace) = {}
        /\ exec.pc \in {"done", "raised"} => exec.error = "ValueError: Invalid interaction format"

\* C10: pilot calls are issued in list order and one at a time: at most one
\* call is in flight; the calls issued so far are the first calls the list
\* asks for; a call is followed at once by its own completion; every call
\* after the first starts right after a pause has elapsed; nothing happens
\* during a pause (it elapses, or the sleep raises); and the first thing done
\* for element i+1 comes after the 0.1 s pause that follows element i.
C10_CallsInOrderOneAtATime ==
    LET trace == exec.trace
    IN /\ exec.inFlight \in {0, 1}
       /\ IsPrefix(IssuedCalls(trace), ExpectedCalls(pList))
       /\ \A p \in 1..Len(trace) :
              /\ (trace[p].ev = "call" /\ p < Len(trace)) => trace[p + 1].ev \in {"return", "raise"}
              /\ (trace[p].ev = "call" /\ \E q \in 1..(p - 1) : trace[q].ev = "call")
                     => trace[p - 1].ev = "sleep_end"
              /\ (trace[p].ev = "sleep_begin" /\ p < Len(trace))
                     => \/ trace[p + 1].ev = "sleep_end" /\ trace[p + 1].arg = trace[p].arg
                        \/ trace[p + 1].ev = "raise"
              /\ p > 1 => trace[p - 1].item <= trace[p].item
              /\ (p > 1 /\ trace[p - 1].item < trace[p].item)
                     => /\ trace[p - 1] = Event("sleep_end", trace[p - 1].item, "sleep", <<"0",".","1">>)
                        /\ trace[p].item = trace[p - 1].item + 1

\* a list of three interactions, one of them typing two characters, was
\* executed to its end with at least four pilot calls
C10_Witness ==
    /\ exec.pc = "done"
    /\ Len(pList) = 3
    /\ \E i \in 1..3 : pList[i] = <<"t","y","p","e",":","a","b">>
    /\ Cardinality(CallPositions(exec.trace)) >= 4


----------------------------------------------------------------------------
(* Properties of the detector                                              *)

\* sum(confidence_i * w_i) / sum(w_i) of a non-empty issue list
WeightedAverage(issues) == fdiv(WeightedConfidence(issues), TotalWeight(issues))

Elements(seq) == {seq[k] : k \in 1..Len(seq)}

\* the capture was analysed: it succeeded and names an artifact
Analysed == capture.success /\ capture.has_path

SvgStagesRun == Analysed /\ enable_svg_analysis /\ capture.format = "svg"

\* C6: the detection_confidence of every returned DetectionResult is the
\* severity-weighted average of its issues' confidences, and 1.0 when it has
\* no issue.
C6_ConfidenceIsWeightedAverage ==
    dresult.called =>
        IF dresult.issues_detected = <<>>
        THEN RatEq(dresult.detection_confidence, Rat(1, 1))
        ELSE RatEq(dresult.detection_confidence, WeightedAverage(dresult.issues_detected))

\* C7: when an analysis stage meets an exception (the artifact cannot be
\* opened, decoded or parsed), the result holds an analysis_error issue and
\* still holds the issues the file-size stage had produced.
C7_StageExceptionKeepsIssues ==
    (dresult.called /\ SvgStagesRun /\ capture.file.state # "ok") =>
        /\ \E i \in Elements(dresult.issues_detected) : i.category = "analysis_error"
        /\ Elements(_analyze_file_size(capture)) \subseteq Elements(dresult.issues_detected)

\* C8: the confidence is 1.0 for the empty issue list and below 1.0 for every
\* list, of confidences between 0 and 1, that holds a critical issue whose
\* confidence is below 1.0.
C8_ConfidenceOneOnlyWithoutDoubtedCritical ==
    dconfidence.called =>
        /\ issueList = <<>> => RatEq(dconfidence.value, Rat(1, 1))
        /\ (\E i \in Elements(issueList) : i.severity = "critical" /\ RatLess(i.confidence, Rat(1, 1)))
               => RatLess(dconfidence.value, Rat(1, 1))

\* C9: a capture that failed or names no artifact yields the single critical
\* capture_failure issue of confidence 1.0, detection_confidence 1.0, and no
\* analysis stage is entered.
C9_FailedCaptureShortCircuits ==
    (dresult.called /\ ~Analysed) =>
        /\ Len(dresult.issues_detected) = 1
        /\ dresult.issues_detected[1].category = "capture_failure"
        /\ dresult.issues_detected[1].severity = "critical"
        /\ dresult.issues_detected[1].confidence = Tenths(10)
        /\ RatEq(dresult.detection_confidence, Rat(1, 1))
        /\ dstages = <<>>

\* a capture flagged successful that names no artifact, of a size and a
\* context the stages would have reported on
C9_Witness ==
    /\ dresult.called
    /\ capture.success
    /\ ~capture.has_path
    /\ capture.file_size_bytes = 500
    /\ capture.context = <<"E","r","r","o","r","_","s","t","a","t","e">>
    /\ Len(dresult.issues_detected) = 1

----------------------------------------------------------------------------
(* Properties of the capture engine                                        *)

\* the step is a call of capture_app_screenshot, of _get_cache_entry
CaptureStep == ncalls' = ncalls + 1 /\ lastCall'.op = "capture"

LookupStep == ncalls' = ncalls + 1 /\ lastCall'.op = "lookup"

\* the hooks called, without what became of each call
HooksCalled(calls) == [k \in 1..Len(calls) |-> <<calls[k].hook, calls[k].plugin>>]

\* every plugin's hook of that name was called, none was
AllCalled(calls, hook) == \A p \in Plugins : \E k \in 1..Len(calls) : calls[k].hook = hook /\ calls[k].plugin = p

NoneCalled(calls, hook) == \A k \in 1..Len(calls) : calls[k].hook # hook

\* C11: an exception raised by a hook never leaves capture_app_screenshot: the
\* capture returns, it calls the same hooks in the same order, and its result,
\* the cache and the files are those of the same capture with no hook raising.
C11_HookExceptionsContained ==
    [][CaptureStep =>
          \A quiet \in {capture_app_screenshot(cache, files, clock, lastCall'.content_hash,
                                               lastCall'.render, {})} :
             /\ ~lastCall'.raised
             /\ lastCall'.result = quiet.result
             /\ cache' = quiet.cache
             /\ files' = quiet.files
             /\ HooksCalled(lastCall'.calls) = HooksCalled(quiet.calls)]_vars

\* a successful capture during which every hook of every plugin raised
C11_Witness ==
    /\ lastCall.op = "capture"
    /\ lastCall.raising = Plugins \X HookNames
    /\ ~lastCall.raised
    /\ lastCall.result # None /\ lastCall.result[1].success
    /\ \E k \in 1..Len(lastCall.calls) : lastCall.calls[k].raised /\ k < Len(lastCall.calls)

\* C12: every capture calls pre_capture and post_capture of each plugin; a
\* successful one then calls on_success and never on_failure, a failed one
\* on_failure and never on_success.
C12_HooksOfEveryCapture ==
    (lastCall.op = "capture" /\ lastCall.result # None) =>
        /\ AllCalled(lastCall.calls, "pre_capture")
        /\ AllCalled(lastCall.calls, "post_capture")
        /\ IF lastCall.result[1].success
           THEN AllCalled(lastCall.calls, "on_success") /\ NoneCalled(lastCall.calls, "on_failure")
           ELSE AllCalled(lastCall.calls, "on_failure") /\ NoneCalled(lastCall.calls, "on_success")

\* C13: a lookup of a key whose entry names a missing file is a miss and
\* removes the entry; the cache never holds two entries of one key; a lookup
\* or a capture never serves an entry whose file does not exist.
C13_MissingFileEvictsAndOneEntryPerKey ==
    /\ [](\A e1 \in cache, e2 \in cache : e1.content_hash = e2.content_hash => e1 = e2)
    /\ [][(LookupStep /\ CacheGet(cache, lastCall'.content_hash) # None
                      /\ CacheGet(cache, lastCall'.content_hash)[1].screenshot_path \notin files)
             => /\ lastCall'.entry = None
                /\ CacheGet(cache', lastCall'.content_hash) = None]_vars
    /\ [][(LookupStep /\ lastCall'.entry # None) => lastCall'.entry[1].screenshot_path \in files]_vars
    /\ [][(CaptureStep /\ lastCall'.result # None /\ lastCall'.result[1].cache_hit)
             => lastCall'.result[1].screenshot_path[1] \in files]_vars

\* a lookup that found nothing and left no entry, of a key captured before,
\* while the other key is still cached
C13_Witness ==
    /\ lastCall.op = "lookup"
    /\ lastCall.seq = 3
    /\ lastCall.entry = None
    /\ CacheGet(cache, lastCall.content_hash) = None
    /\ Cardinality(cache) = 1
    /\ files = {}

\* the age of the entry of a key at time t
Age(c, t, content_hash) == t - CacheGet(c, content_hash)[1].created_at

\* C14: an entry is served only while its age is at most 3600 seconds: a
\* lookup or a capture that hits found an entry no older than that, and a key
\* whose entry is older is a miss and is rendered again.
C14_HitOnlyWithinTTL ==
    /\ [][(LookupStep /\ CacheGet(cache, lastCall'.content_hash) # None)
             => /\ lastCall'.entry # None => Age(cache, clock, lastCall'.content_hash) <= 3600
                /\ Age(cache, clock, lastCall'.content_hash) > 3600 => lastCall'.entry = None]_vars
    /\ [][(CaptureStep /\ lastCall'.result # None /\ CacheGet(cache, lastCall'.content_hash) # None)
             => /\ lastCall'.result[1].cache_hit => Age(cache, clock, lastCall'.content_hash) <= 3600
                /\ Age(cache, clock, lastCall'.content_hash) > 3600
                      => /\ ~lastCall'.result[1].cache_hit
                         /\ lastCall'.result[1].success
                               => lastCall'.result[1].screenshot_path
                                      = Some(PathOf(lastCall'.content_hash.context, clock))]_vars

\* a lookup missed although the entry of the key is still in the cache and
\* its file exists: the entry is 3601 seconds old
C14_Witness ==
    /\ lastCall.op = "lookup"
    /\ lastCall.entry = None
    /\ CacheGet(cache, lastCall.content_hash) # None
    /\ CacheGet(cache, lastCall.content_hash)[1].screenshot_path \in files
    /\ Age(cache, clock, lastCall.content_hash) = 3601

----------------------------------------------------------------------------
(* Properties of the similarity engine                                     *)

\* both paths name files that exist and can be read
BothExist == simPair[1].exists /\ simPair[2].exists /\ simOut.forward.raised = "none"

\* C15: calculate_file_similarity is reflexive and symmetric on existing
\* files: a file compared with itself, or with a file of the same bytes,
\* gives 1.0, and the two orders of a pair give the same float.
C15_SimilarityReflexiveAndSymmetric ==
    (simOut.called /\ BothExist) =>
        /\ simOut.self.value = Rat(1, 1)
        /\ (calculate_file_hash(simPair[1]) = calculate_file_hash(simPair[2])
               => simOut.forward.value = Rat(1, 1))
        /\ simOut.forward.value = simOut.backward.value

\* the reflexive half: a file compared with itself or with its own bytes
SimilarityReflexive ==
    (simOut.called /\ BothExist) =>
        /\ simOut.self.value = Rat(1, 1)
        /\ (calculate_file_hash(simPair[1]) = calculate_file_hash(simPair[2])
               => simOut.forward.value = Rat(1, 1) /\ simOut.backward.value = Rat(1, 1))

\* the symmetric half where no sum of three or more floats is formed: files
\* that are not both parsed SVG documents, or that hold at most two tag names
SimilaritySymmetricUpToTwoTags ==
    (simOut.called /\ BothExist /\ Cardinality(AllElements(simPair[1], simPair[2])) <= 2) =>
        simOut.forward.value = simOut.backward.value

\* the two orders of a pair differ by no more than the rounding of the sum
SimilarityNearlySymmetric ==
    (simOut.called /\ BothExist) =>
        LET d == fsub(simOut.forward.value, simOut.backward.value)
        IN RatLess(d, Rat(1, Pow2(Precision - 2))) /\ RatLess(Rat(-1, Pow2(Precision - 2)), d)

----------------------------------------------------------------------------
(* Properties of the validation suite                                      *)

\* the entries of a directory that a stage's pattern matches
Matching(directory, infix) == {entry \in directory : startswith(entry.name, shot.context \o infix)}

\* the values of a dict of floats
Range(d) == {d[k] : k \in DOMAIN d}

\* m is the largest, or the smallest, of a set of floats
IsMaximum(m, values) == m \in values /\ \A v \in values : ~RatLess(m, v)

IsMinimum(m, values) == m \in values /\ \A v \in values : ~RatLess(v, m)

\* a successful capture that has a path was validated
Validated == valOut.called /\ shot.success /\ shot.screenshot_path # None

\* every baseline that the pattern matches can be read
BaselinesReadable == \A entry \in Matching(baselineDir, <<"_","b","a","s","e","l","i","n","e","_">>) : ~Unreadable(entry.path)

\* every reference file that a stage's pattern matches can be read
ReferencesReadable ==
    \A entry \in Matching(baselineDir, <<"_","b","a","s","e","l","i","n","e","_">>) \cup Matching(platformDir, <<"_","p","l","a","t","f","o","r","m","_">>) :
        ~Unreadable(entry.path)

\* the human-baseline stage returned: its result is the first of the list
BaselineStageReturned == valOut.called /\ Len(valOut.validations) >= 1

\* some matching baseline holds the bytes of the artifact
IdenticalBaseline ==
    /\ ShotPath.exists
    /\ \E entry \in Matching(baselineDir, <<"_","b","a","s","e","l","i","n","e","_">>) :
          entry.path.exists /\ calculate_file_hash(entry.path) = calculate_file_hash(ShotPath)

\* C16: the human-baseline stage returns is_valid = true with confidence 0.3
\* when no file matches {context}_baseline_*; otherwise its confidence is the
\* largest similarity of the artifact to a matching baseline and it is valid
\* exactly when that maximum is at least 0.7, so that an artifact with the
\* bytes of some matching baseline is valid with confidence 1.0.
C16_BaselineStage ==
    /\ (Validated /\ BaselinesReadable) => BaselineStageReturned
    /\ BaselineStageReturned =>
        LET stage == valOut.validations[1][2]
            matching == Matching(baselineDir, <<"_","b","a","s","e","l","i","n","e","_">>)
        IN /\ matching = {} => stage.is_valid /\ stage.confidence = Tenths(3)
           /\ matching # {} =>
                 /\ DOMAIN valOut.baseline_similarities = {entry.name : entry \in matching}
                 /\ \A entry \in matching :
                       valOut.baseline_similarities[entry.name].value
                           \in {outcome.value : outcome \in SuiteOutcomes[ShotPath][entry.path]}
                 /\ IsMaximum(stage.confidence, Range(Values(valOut.baseline_similarities)))
                 /\ stage.is_valid <=> ~RatLess(stage.confidence, Tenths(7))
           /\ IdenticalBaseline => stage.is_valid /\ stage.confidence = Rat(1, 1)

\* the stage returned for an artifact with two matching baselines, one with
\* its bytes and one of another document
C16_Witness ==
    /\ BaselineStageReturned
    /\ IdenticalBaseline
    /\ Cardinality(Range(Values(valOut.baseline_similarities))) = 2
    /\ valOut.validations[1][2].confidence = Rat(1, 1)

\* the stage returned without a matching baseline although the directory
\* holds a baseline of another context
BaselineStageNoMatch ==
    /\ BaselineStageReturned
    /\ baselineDir # {}
    /\ Matching(baselineDir, <<"_","b","a","s","e","l","i","n","e","_">>) = {}

\* the stage returned is_valid = false: no baseline is similar enough
BaselineStageInvalid ==
    /\ BaselineStageReturned
    /\ ~valOut.validations[1][2].is_valid

\* the cross-platform stage returned: its result is the second of the list
PlatformStageReturned == valOut.called /\ Len(valOut.validations) >= 2

\* the population variance of a list of floats
Variance(xs) ==
    LET mean == fdiv(fsum(xs), Rat(Len(xs), 1))
    IN fdiv(fsum([i \in DOMAIN xs |-> fsquare(fsub(xs[i], mean))]), Rat(Len(xs), 1))

\* C17: the cross-platform stage returns is_valid = true with confidence 0.4
\* when fewer than 2 files match {context}_platform_*; otherwise it is valid
\* exactly when the variance of the similarities is below 0.3 and their
\* minimum is above 0.6, and its confidence is (1 - variance) * minimum.
C17_PlatformStage ==
    /\ (Validated /\ ReferencesReadable) => PlatformStageReturned
    /\ PlatformStageReturned =>
        LET stage == valOut.validations[2][2]
            matching == Matching(platformDir, <<"_","p","l","a","t","f","o","r","m","_">>)
            names == {entry.name : entry \in matching}
            similarities == Values(valOut.platform_similarities)
        IN /\ Cardinality(matching) < 2 => stage.is_valid /\ stage.confidence = Tenths(4)
           /\ Cardinality(matching) >= 2 =>
                 /\ DOMAIN similarities = names
                 /\ \A entry \in matching :
                       similarities[entry.name] \in {outcome.value : outcome \in SuiteOutcomes[ShotPath][entry.path]}
                 /\ \E listing \in Orders(names), minimum \in Range(similarities) :
                       LET variance == Variance([i \in DOMAIN listing |-> similarities[listing[i]]])
                       IN /\ IsMinimum(minimum, Range(similarities))
                          /\ stage.is_valid <=> (RatLess(variance, Tenths(3)) /\ RatLess(Tenths(6), minimum))
                          /\ stage.confidence = fmul(fsub(Rat(1, 1), variance), minimum)

\* the stage returned for references of two different similarities to the
\* artifact: the variance is not zero and the confidence is below the minimum
C17_Witness ==
    /\ PlatformStageReturned
    /\ Cardinality(Matching(platformDir, <<"_","p","l","a","t","f","o","r","m","_">>)) >= 2
    /\ Cardinality(Range(Values(valOut.platform_similarities))) = 2
    /\ RatLess(Rat(0, 1), valOut.validations[2][2].confidence)
    /\ \E minimum \in Range(Values(valOut.platform_similarities)) :
          /\ IsMinimum(minimum, Range(Values(valOut.platform_similarities)))
          /\ RatLess(valOut.validations[2][2].confidence, minimum)

\* the stage returned is_valid = true for two references or more
PlatformStageValid ==
    /\ PlatformStageReturned
    /\ Cardinality(Matching(platformDir, <<"_","p","l","a","t","f","o","r","m","_">>)) >= 2
    /\ valOut.validations[2][2].is_valid

\* the stage returned for a single matching reference
PlatformStageInsufficient ==
    /\ PlatformStageReturned
    /\ Cardinality(Matching(platformDir, <<"_","p","l","a","t","f","o","r","m","_">>)) = 1

\* C18: for a successful capture, validate_against_references returns the
\* arithmetic mean of the confidences of its three stages (human baseline,
\* platform consistency, quality assessment) as confidence and the
\* conjunction of their validities as is_valid, and validation_breakdown and
\* individual_results report the values that were aggregated.
C18_AggregateOfThreeStages ==
    (Validated /\ ReferencesReadable) =>
        LET stages == valOut.validations
            result == valOut.result
        IN /\ [i \in DOMAIN stages |-> stages[i][1]]
                 = <<"human_baseline", "platform_consistency", "quality_assessment">>
           /\ stages[3][2] = _assess_screenshot_quality_algorithmic(shot)
           /\ result.confidence
                 = fdiv(fadd(fadd(stages[1][2].confidence, stages[2][2].confidence), stages[3][2].confidence),
                        Rat(3, 1))
           /\ result.is_valid
                 <=> (stages[1][2].is_valid /\ stages[2][2].is_valid /\ stages[3][2].is_valid)
           /\ \A i \in 1..3 :
                 /\ result.metrics[<<"v","a","l","i","d","a","t","i","o","n","_","b","r","e","a","k","d","o","w","n">>][i] = <<stages[i][1], stages[i][2].confidence>>
                 /\ result.metrics[<<"i","n","d","i","v","i","d","u","a","l","_","r","e","s","u","l","t","s">>][i] = <<stages[i][1], stages[i][2].is_valid>>

\* a successful capture was validated: the three stages gave three different
\* confidences, and one of them was invalid
C18_Witness ==
    /\ Validated /\ ReferencesReadable
    /\ Len(valOut.validations) = 3
    /\ Cardinality({valOut.validations[i][2].confidence : i \in 1..3}) = 3
    /\ valOut.validations[1][2].is_valid
    /\ ~valOut.result.is_valid

\* a successful capture was found valid by all three stages
ValidationValid ==
    /\ valOut.called
    /\ valOut.result.is_valid

\* a stage raised: the result is that of the except branch
ValidationSystemErrorReturned ==
    /\ valOut.called /\ shot.success
    /\ valOut.result.issues = <<"Validation system error">>

\* the capture had failed or had no path: no stage was run
ValidationShortCircuit ==
    /\ valOut.called
    /\ valOut.result.issues = <<"Screenshot capture failed - cannot validate">>
    /\ valOut.validations = <<>>

----------------------------------------------------------------------------
(* Properties of the quality scorer                                        *)

\* the artifact the scorer was given
QualityPath == qshot.screenshot_path[1]

\* the scorer was called on an artifact whose parse raises
ScoredUnparsed == qOut.called /\ qshot.screenshot_path # None /\ ParseRaises(QualityPath)

\* a score of about 0.5
AboutHalf(score) == RatLess(Tenths(4), score) /\ RatLess(score, Tenths(6))

\* C19: each quality analyzer that parses the artifact (complexity,
\* structure, completeness) returns a neutral score of about 0.5 when the
\* parse raises.
C19_NeutralOnParseException ==
    ScoredUnparsed =>
        /\ QualityPath.suffix = ".svg" =>
              /\ AboutHalf(qOut.metrics.content_complexity_score)
              /\ AboutHalf(qOut.metrics.completeness_score)
        /\ qshot.format = "svg" => AboutHalf(qOut.metrics.structure_score)

\* C19, amended: no analyzer propagates a parse exception of the artifact;
\* the complexity and completeness analyzers return 0.5 on it, the structure
\* analyzer returns 0.0 when the artifact can be read and is not well-formed
\* XML and 0.5 on any other exception of the parse, and the size analyzer
\* scores the recorded byte count whatever the artifact holds.
C19_DefensiveAnalyzers ==
    ScoredUnparsed =>
        /\ QualityPath.suffix = ".svg" =>
              /\ qOut.metrics.content_complexity_score = Tenths(5)
              /\ qOut.metrics.completeness_score = Tenths(5)
        /\ qshot.format = "svg" =>
              qOut.metrics.structure_score
                  = IF QualityPath.exists /\ ~Unreadable(QualityPath) /\ Unparsable(QualityPath)
                    THEN Rat(0, 1) ELSE Tenths(5)
        /\ \A other \in QualityPool :
              other.file_size_bytes = qshot.file_size_bytes /\ other.screenshot_path # None
                  => qOut.metrics.file_size_score
                         = calculate_quality_metrics(other).file_size_score

\* a vector artifact that is not well-formed XML was scored: 0.5 for its
\* complexity and its completeness, 0.0 for its structure
C19_Witness ==
    /\ ScoredUnparsed
    /\ QualityPath.suffix = ".svg" /\ qshot.format = "svg"
    /\ QualityPath.exists /\ QualityPath.file.state = "malformed"
    /\ qOut.metrics.content_complexity_score = Tenths(5)
    /\ qOut.metrics.structure_score = Rat(0, 1)

\* a vector artifact whose path names no file was scored: 0.5 for its structure
ScoredMissing ==
    /\ ScoredUnparsed
    /\ qshot.format = "svg" /\ ~QualityPath.exists
    /\ qOut.metrics.structure_score = Tenths(5)

\* a float of [0,1]
UnitInterval(score) == ~RatLess(score, Rat(0, 1)) /\ ~RatLess(Rat(1, 1), score)

\* C20: the overall_score of calculate_quality_metrics lies in [0,1] and is
\* 0.2*size + 0.3*complexity + 0.3*structure + 0.2*completeness of the four
\* sub-scores of the same QualityMetrics, each of which lies in [0,1].
C20_OverallIsWeightedSum ==
    qOut.called =>
        LET m == qOut.metrics
        IN /\ UnitInterval(m.overall_score)
           /\ UnitInterval(m.file_size_score)
           /\ UnitInterval(m.content_complexity_score)
           /\ UnitInterval(m.structure_score)
           /\ UnitInterval(m.completeness_score)
           /\ m.overall_score
                 = fadd(fadd(fadd(fmul(Tenths(2), m.file_size_score),
                                  fmul(Tenths(3), m.content_complexity_score)),
                             fmul(Tenths(3), m.structure_score)),
                        fmul(Tenths(2), m.completeness_score))

\* an artifact was scored 1.0 by every analyzer and 1.0 overall
C20_Witness ==
    /\ qOut.called
    /\ qOut.metrics.file_size_score = Rat(1, 1)
    /\ qOut.metrics.content_complexity_score = Rat(1, 1)
    /\ qOut.metrics.structure_score = Rat(1, 1)
    /\ qOut.metrics.completeness_score = Rat(1, 1)
    /\ qOut.metrics.overall_score = Rat(1, 1)

\* an artifact was scored with four different sub-scores, none of them 0 or 1
ScoredInside ==
    /\ qOut.called
    /\ LET m == qOut.metrics
           scores == {m.file_size_score, m.content_complexity_score, m.structure_score, m.completeness_score}
       IN /\ Cardinality(scores) = 4
          /\ \A score \in scores : RatLess(Rat(0, 1), score) /\ RatLess(score, Rat(1, 1))

\* a CaptureResult without a path was scored: every score is 0.0
ScoredWithoutPath ==
    /\ qOut.called /\ qshot.screenshot_path = None
    /\ qOut.metrics.overall_score = Rat(0, 1)

\* a document was scored 1.0 for its complexity
ScoredRich ==
    /\ qOut.called /\ qshot.screenshot_path # None
    /\ QualityPath.suffix = ".svg"
    /\ qOut.metrics.content_complexity_score = Rat(1, 1)

----------------------------------------------------------------------------
(* Properties of the stages of the detector                                *)

\* the analysis ran to its end: the result carries the metadata of the stages
Completed == dresult.called /\ "analysis_methods" \in DOMAIN dresult.analysis_metadata

\* the issues of a list that the file-size stage words
FileSizeIssues(issues) ==
    SelectSeq(issues, LAMBDA i : i.description \in
        {"Screenshot file too small - likely empty screen",
         "Screenshot file small - possible content issue",
         "Screenshot file very large - possible capture issue",
         "Screenshot file large - consider optimization"})

\* the list is the one issue of this wording and severity
IsTheIssue(issues, description, severity) ==
    /\ Len(issues) = 1
    /\ issues[1].description = description
    /\ issues[1].severity = severity

FileSizeAtWarningThreshold ==
    /\ Completed
    /\ capture.file_size_bytes = 2000
    /\ FileSizeIssues(dresult.issues_detected) = <<>>

\* C22: on a completed analysis analysis_methods lists the stages that ran
\* in pipeline order: file_size_analysis, then svg_structure_analysis and
\* content_pattern_analysis (both exactly when SVG analysis is enabled and
\* the format is SVG), then platform_issue_detection; and the critical,
\* warning and info counts sum to total_issues_detected, the length of
\* the issue list.
C22_MethodsAndCounts ==
    Completed =>
        LET meta == dresult.analysis_metadata
        IN /\ meta.analysis_methods =
                 IF enable_svg_analysis /\ capture.format = "svg"
                 THEN <<"file_size_analysis", "svg_structure_analysis",
                        "content_pattern_analysis", "platform_issue_detection">>
                 ELSE <<"file_size_analysis", "platform_issue_detection">>
           /\ meta.critical_issues + meta.warning_issues + meta.info_issues
                 = meta.total_issues_detected
           /\ meta.total_issues_detected = Len(dresult.issues_detected)

\* a completed analysis of an SVG capture recorded all four stages and
\* issues of each of the three severities
C22_Witness ==
    /\ Completed
    /\ Len(dresult.analysis_metadata.analysis_methods) = 4
    /\ dresult.analysis_metadata.critical_issues > 0
    /\ dresult.analysis_metadata.warning_issues > 0
    /\ dresult.analysis_metadata.info_issues > 0

\* a completed analysis with SVG analysis switched off recorded two stages
\* for an SVG capture
CompletedWithoutSvgStages ==
    /\ Completed
    /\ capture.format = "svg"
    /\ ~enable_svg_analysis
    /\ dresult.analysis_metadata.analysis_methods = <<"file_size_analysis", "platform_issue_detection">>

----------------------------------------------------------------------------
(* Properties of the cache and of one capture                              *)

\* the step is a call of cleanup_old_cache_entries
CleanupStep == ncalls' = ncalls + 1 /\ lastCall'.op = "cleanup"

\* C23: cleanup_old_cache_entries(max_age_hours) removes exactly the entries
\* whose created_at is older than now minus max_age_hours, returns the number
\* of entries it removed, and leaves every other entry unchanged.
C23_CleanupRemovesExactlyOld ==
    [][CleanupStep =>
          /\ cache' \subseteq cache
          /\ \A e \in cache :
                e \notin cache' <=> e.created_at < clock - lastCall'.max_age_hours * 3600
          /\ lastCall'.removed = Cardinality(cache \ cache')
          /\ files' = files]_vars

\* a cleanup removed one entry and left the other one, which is younger
C23_Witness ==
    /\ lastCall.op = "cleanup"
    /\ lastCall.max_age_hours = 1
    /\ lastCall.removed = 1
    /\ Cardinality(cache) = 1
    /\ \E e \in cache : clock - e.created_at < 3600

\* a cleanup left an entry that is exactly max_age_hours old
CleanupKeepsEntryAtCutoff ==
    /\ lastCall.op = "cleanup"
    /\ lastCall.max_age_hours = 1
    /\ lastCall.removed = 0
    /\ \E e \in cache : clock - e.created_at = 3600

\* the step is a call of capture_app_screenshot with interactions
CaptureWithStep == ncalls' = ncalls + 1 /\ lastCall'.op = "capture_with"

\* the key names of the metadata of an app context
KeyNames(app_context) == {item[1] : item \in app_context.metadata}

\* the cache holds an entry of the key whose file exists and whose age is
\* within the TTL
Fresh(c, fs, t, content_hash) ==
    /\ CacheGet(c, content_hash) # None
    /\ CacheGet(c, content_hash)[1].screenshot_path \in fs
    /\ t - CacheGet(c, content_hash)[1].created_at <= CACHE_TTL_SECONDS

\* C25: the cache key is computed from app_id, context label, state hash and
\* metadata key names only, not from the interactions or the output format;
\* so a capture that hits a fresh entry returns the cached artifact with
\* cache_hit = true, does not render and executes none of its interactions,
\* even when they differ from those of the capture that created the entry.
C25_HitIgnoresInteractions ==
    /\ [](lastCall.op = "capture_with" =>
             \A other \in AppContexts :
                _generate_content_hash(other, "main") = lastCall.content_hash
                   <=> /\ other.app_id = lastCall.app_context.app_id
                       /\ other.state_hash = lastCall.app_context.state_hash
                       /\ KeyNames(other) = KeyNames(lastCall.app_context))
    /\ [][(CaptureWithStep /\ Fresh(cache, files, clock, lastCall'.content_hash)) =>
             /\ ~lastCall'.raised
             /\ lastCall'.result[1].success
             /\ lastCall'.result[1].cache_hit
             /\ lastCall'.result[1].screenshot_path
                   = Some(CacheGet(cache, lastCall'.content_hash)[1].screenshot_path)
             /\ lastCall'.events = <<>>
             /\ files' = files]_vars

\* a capture with two interactions hit the entry that the capture before it
\* created with one other interaction and with other metadata values
C25_Witness ==
    /\ lastCall.op = "capture_with"
    /\ lastCall.result[1].cache_hit
    /\ lastCall.interactions = <<"click:#b", "press:a">>
    /\ lastCall.events = <<>>
    /\ lastCall.previous # None
    /\ lastCall.previous[1].interactions = <<"press:a">>
    /\ lastCall.previous[1].events = <<"press:a", "save_screenshot">>
    /\ lastCall.previous[1].app_context # lastCall.app_context

\* the calls of a hook of one plugin among the hook calls of a capture
CallsOf(calls, hook, plugin) ==
    Len(SelectSeq(calls, LAMBDA call : call.hook = hook /\ call.plugin = plugin))

\* C29: within one capture the artifact is saved only after every
\* interaction of the list has been executed; if an interaction raises, the
\* remaining ones are not executed, no artifact is saved, the on_failure hooks
\* run once, and capture_app_screenshot returns a result with success = false
\* and an error message instead of raising.
C29_SaveAfterInteractionsOrFail ==
    [][CaptureWithStep =>
          /\ (files' # files \/ \E k \in DOMAIN lastCall'.events : lastCall'.events[k] = "save_screenshot")
                => lastCall'.events = lastCall'.interactions \o <<"save_screenshot">>
          /\ (lastCall'.failing # 0 /\ ~Fresh(cache, files, clock, lastCall'.content_hash))
                => /\ lastCall'.events = SubSeq(lastCall'.interactions, 1, lastCall'.failing)
                   /\ files' = files
                   /\ \A plugin \in Plugins : CallsOf(lastCall'.calls, "on_failure", plugin) = 1
                   /\ ~lastCall'.raised
                   /\ ~lastCall'.result[1].success
                   /\ lastCall'.result[1].error_message # None]_vars

\* the first of two interactions raised: the second was not executed and the
\* capture returned a failure
C29_Witness ==
    /\ lastCall.op = "capture_with"
    /\ lastCall.interactions = <<"click:#b", "press:a">>
    /\ lastCall.failing = 1
    /\ lastCall.events = <<"click:#b">>
    /\ ~lastCall.raised
    /\ ~lastCall.result[1].success
    /\ files = {}

\* both interactions ran and the artifact was saved after them
SavedAfterInteractions ==
    /\ lastCall.op = "capture_with"
    /\ lastCall.events = <<"click:#b", "press:a", "save_screenshot">>
    /\ lastCall.result[1].success
    /\ ~lastCall.result[1].cache_hit
    /\ lastCall.result[1].screenshot_path[1] \in files

\* C30: a capture that fails never adds or overwrites a cache entry: the
\* only cache change it can make is the eviction, during its lookup, of its
\* own key's entry whose backing file is missing; its result has
\* success = false, no artifact path and a non-empty error message.
C30_FailedCaptureLeavesCache ==
    [][(CaptureWithStep /\ ~lastCall'.result[1].success) =>
          /\ cache' = IF /\ CacheGet(cache, lastCall'.content_hash) # None
                         /\ CacheGet(cache, lastCall'.content_hash)[1].screenshot_path \notin files
                      THEN CacheDel(cache, lastCall'.content_hash)
                      ELSE cache
          /\ lastCall'.result[1].screenshot_path = None
          /\ lastCall'.result[1].error_message # None]_vars

\* a failed capture evicted the entry of its key, which the capture before
\* it had created and whose file was deleted since
C30_Witness ==
    /\ lastCall.op = "capture_with"
    /\ ~lastCall.result[1].success
    /\ lastCall.previous # None
    /\ lastCall.previous[1].success
    /\ lastCall.previous[1].events # <<>>
    /\ _generate_content_hash(lastCall.previous[1].app_context, "main") = lastCall.content_hash
    /\ cache = {}

\* a capture failed because no file was produced, and the entry of another
\* key stayed in the cache
FailedWithoutFile ==
    /\ lastCall.op = "capture_with"
    /\ lastCall.save = "not_created"
    /\ lastCall.events # <<>>
    /\ ~lastCall.result[1].success
    /\ cache # {}

----------------------------------------------------------------------------
(* Properties of the suite that follow from the weights of the similarity  *)

\* a reference file exists, and so does the artifact, and their bytes differ
Differs(entry) ==
    /\ ShotPath.exists
    /\ entry.path.exists
    /\ calculate_file_hash(entry.path) # calculate_file_hash(ShotPath)

\* C26: for two existing files whose contents differ calculate_file_similarity
\* returns at most 0.6; consequently, when at least one baseline file is
\* present, the human-baseline stage returns is_valid = true only if some
\* baseline is byte-identical to the artifact.
C26_ValidBaselineIsIdentical ==
    BaselineStageReturned =>
        LET stage == valOut.validations[1][2]
            matching == Matching(baselineDir, <<"_","b","a","s","e","l","i","n","e","_">>)
        IN /\ \A entry \in matching :
                 Differs(entry) =>
                    ~RatLess(Tenths(6), valOut.baseline_similarities[entry.name].value)
           /\ (matching # {} /\ stage.is_valid) => IdenticalBaseline

\* the stage returned is_valid = false although a baseline holds the same
\* document at the same size in other bytes: its similarity is exactly 0.6
C26_Witness ==
    /\ BaselineStageReturned
    /\ ~valOut.validations[1][2].is_valid
    /\ \E entry \in Matching(baselineDir, <<"_","b","a","s","e","l","i","n","e","_">>) :
          /\ Differs(entry)
          /\ valOut.baseline_similarities[entry.name].value = Tenths(6)

\* C27: with two or more platform references the cross-platform stage
\* returns is_valid = true only when every reference is byte-identical to the
\* artifact: the variance of similarities that lie in [0,1] is at most 0.25
\* and never fails the variance < 0.3 test, while min_similarity > 0.6 cannot
\* hold as soon as one reference differs from the artifact.
C27_ValidPlatformsAreIdentical ==
    (PlatformStageReturned /\ Cardinality(Matching(platformDir, <<"_","p","l","a","t","f","o","r","m","_">>)) >= 2) =>
        LET stage == valOut.validations[2][2]
            matching == Matching(platformDir, <<"_","p","l","a","t","f","o","r","m","_">>)
            similarities == Values(valOut.platform_similarities)
        IN /\ \A v \in Range(similarities) : ~RatLess(v, Rat(0, 1)) /\ ~RatLess(Rat(1, 1), v)
           /\ ~RatLess(Rat(1, 4), stage.metrics[<<"c","o","n","s","i","s","t","e","n","c","y","_","v","a","r","i","a","n","c","e">>])
           /\ \A entry \in matching : Differs(entry) => ~RatLess(Tenths(6), similarities[entry.name])
           /\ stage.is_valid <=> \A v \in Range(similarities) : RatLess(Tenths(6), v)
           /\ stage.is_valid =>
                 \A entry \in matching :
                    /\ ShotPath.exists /\ entry.path.exists
                    /\ calculate_file_hash(entry.path) = calculate_file_hash(ShotPath)

\* the stage returned is_valid = true for two references or more, each with
\* the bytes of the artifact
C27_Witness ==
    /\ PlatformStageReturned
    /\ Cardinality(Matching(platformDir, <<"_","p","l","a","t","f","o","r","m","_">>)) >= 2
    /\ valOut.validations[2][2].is_valid
    /\ valOut.validations[2][2].confidence = Rat(1, 1)
    /\ \A entry \in Matching(platformDir, <<"_","p","l","a","t","f","o","r","m","_">>) : ~Differs(entry)

\* the stage returned is_valid = false for two references of which one has
\* the bytes of the artifact and one is the same document in other bytes
PlatformStageOneDiffers ==
    /\ PlatformStageReturned
    /\ Cardinality(Matching(platformDir, <<"_","p","l","a","t","f","o","r","m","_">>)) >= 2
    /\ ~valOut.validations[2][2].is_valid
    /\ Range(Values(valOut.platform_similarities)) = {Rat(1, 1), Tenths(6)}

----------------------------------------------------------------------------
(* Properties of the validator and the executor on the same string         *)

\* the validator accepted the string
Accepted == parsed.called /\ parsed.out.ok

\* the name of the branch of a kind of the grammar
BranchOf(action_type) ==
    CASE action_type = <<"p","r","e","s","s">> -> "press"
      [] action_type = <<"c","l","i","c","k">> -> "click"
      [] action_type = <<"h","o","v","e","r">> -> "hover"
      [] action_type = <<"t","y","p","e">> -> "type"
      [] action_type = <<"w","a","i","t">> -> "wait"
      [] OTHER -> "unknown"

\* the pilot calls that the kind and the target of the validator ask for
ValidatedCalls(action_type, target) ==
    CASE BranchOf(action_type) \in {"press", "click", "hover"} -> << <<BranchOf(action_type), target>> >>
      [] BranchOf(action_type) = "type" -> [k \in 1..Len(target) |-> <<"press", <<target[k]>> >>]
      [] OTHER -> <<>>

\* C28: validator and executor agree on the grammar: every string accepted
\* by parse_interaction is dispatched by _perform_interactions to the branch
\* of the same kind with the same target text, never reaches the 'Unknown
\* interaction command' branch, and for wait the numeric conversion of the
\* executor cannot fail.
C28_ValidatorExecutorAgree ==
    Accepted =>
        LET action_type == SplitHead(raw)
            target == SplitTail(raw)
        IN /\ Branch(pList[1]) = BranchOf(action_type)
           /\ Branch(pList[1]) # "unknown"
           /\ Argument(pList[1]) = target
           /\ \A p \in 1..Len(exec.trace) :
                 /\ exec.trace[p].ev # "warn"
                 /\ exec.trace[p].ev = "raise"
                       => exec.trace[p].op # "ValueError: could not convert string to float"
           /\ IsPrefix(IssuedCalls(exec.trace), ValidatedCalls(action_type, target))
           /\ exec.pc = "done" =>
                 /\ IssuedCalls(exec.trace) = ValidatedCalls(action_type, target)
                 /\ BranchOf(action_type) = "wait" =>
                       \E p \in 1..Len(exec.trace) :
                          exec.trace[p].ev = "sleep_begin" /\ exec.trace[p].arg = target

\* an accepted type: of three characters, the second a ':', was typed to its
\* end by the executor
C28_Witness ==
    /\ Accepted
    /\ exec.pc = "done"
    /\ SplitHead(raw) = <<"t","y","p","e">>
    /\ Len(SplitTail(raw)) = 3
    /\ SplitTail(raw)[2] = ":"
    /\ Len(IssuedCalls(exec.trace)) = 3

\* an accepted wait: with a blank before the number was slept by the executor
AcceptedWaitSlept ==
    /\ Accepted
    /\ exec.pc = "done"
    /\ raw = <<"w","a","i","t",":"," ","1",".">>

\* the accepted wait:nan reached the wait branch: the conversion gave NaN
\* and the pause raised
AcceptedNaNConverted ==
    /\ Accepted
    /\ raw = <<"w","a","i","t",":","n","a","n">>
    /\ exec.pc = "raised"
    /\ exec.error = "ValueError: Invalid delay: NaN not supported"

\* a rejected string reached the 'Unknown interaction command' branch
RejectedUnknownWarned ==
    /\ parsed.called /\ ~parsed.out.ok
    /\ \E p \in 1..Len(exec.trace) : exec.trace[p].ev = "warn"

----------------------------------------------------------------------------
(* Properties of the state hash                                            *)

\* two calls were made within one clock minute, within one clock second
SameMinute(i, j) == hashes[i].at.minute = hashes[j].at.minute

SameSecond(i, j) == SameMinute(i, j) /\ hashes[i].at.second = hashes[j].at.second

\* C24: get_state_hash is stable within a minute: two calls on the same
\* context made within the same clock minute return the same 16-character
\* hash.
C24_StateHashStableWithinMinute ==
    \A i \in DOMAIN hashes, j \in DOMAIN hashes :
        SameMinute(i, j) =>
            /\ hashes[i].value = hashes[j].value
            /\ hashes[i].value.characters = 16

\* two calls made within the same clock second return the same
\* 16-character hash, calls made in different seconds different ones
StateHashStableWithinSecond ==
    \A i \in DOMAIN hashes, j \in DOMAIN hashes :
        /\ hashes[i].value.characters = 16
        /\ SameSecond(i, j) <=> hashes[i].value = hashes[j].value

\* two calls half a second apart within one second
HashedTwiceWithinSecond ==
    \E i \in DOMAIN hashes, j \in DOMAIN hashes :
        /\ SameSecond(i, j)
        /\ hashes[i].at.microsecond # hashes[j].at.microsecond

================================================================================
